---- MODULE Spec2Model ----
(***************************************************************************)
(* A model of the turbofan cycle solver and its sweep drivers              *)
(* (src/services/engineService.ts) and of the application shell that calls *)
(* them (src/App.tsx).                                                     *)
(*                                                                         *)
(* JavaScript numbers are modelled as decimal floating-point values: a     *)
(* record [t, m, e] where t = 0 is a finite number m * 10^e whose mantissa *)
(* m is 0 (with e = 0) or has exactly Digits decimal digits, t = 1 is      *)
(* +Infinity, t = -1 is -Infinity and t = 2 is NaN.  Every arithmetic      *)
(* operator rounds its exact result to Digits digits, as the               *)
(* binary64 operators round theirs to 53 bits; NaN and the infinities      *)
(* propagate as IEEE 754 prescribes.  Zero carries no sign.  The slider    *)
(* values and the program's literals (288.15, 0.0065, 101325, ...) have at *)
(* most six digits and are represented exactly.                            *)
(***************************************************************************)
EXTENDS Integers, Sequences, FiniteSets, TLC

\* ------------------------------------------------------------------------
\* number model

Digits == 8
ExpMax == 300
ExpMin == -330

NaN == [t |-> 2, m |-> 0, e |-> 0]
PInf == [t |-> 1, m |-> 0, e |-> 0]
NInf == [t |-> -1, m |-> 0, e |-> 0]
Zero == [t |-> 0, m |-> 0, e |-> 0]

Abs(n) == IF n < 0 THEN -n ELSE n

Sgn(n) == IF n < 0 THEN -1 ELSE IF n > 0 THEN 1 ELSE 0

Inf(s) == IF s < 0 THEN NInf ELSE PInf

Pow10(n) == <<1, 10, 100, 1000, 10000, 100000, 1000000, 10000000, 100000000,
              1000000000>>[n + 1]

\* the number of decimal digits of 0 < a < 2^31
NumDigits(a) ==
    IF a >= 1000000000 THEN 10 ELSE IF a >= 100000000 THEN 9
    ELSE IF a >= 10000000 THEN 8 ELSE IF a >= 1000000 THEN 7
    ELSE IF a >= 100000 THEN 6 ELSE IF a >= 10000 THEN 5
    ELSE IF a >= 1000 THEN 4 ELSE IF a >= 100 THEN 3
    ELSE IF a >= 10 THEN 2 ELSE 1

\* the finite number s * a * 10^e, for a mantissa a with Digits digits:
\* overflow gives an infinity, underflow gives zero
Pack(s, a, e) ==
    IF a = 0 THEN Zero
    ELSE IF e > ExpMax THEN Inf(s)
    ELSE IF e < ExpMin THEN Zero
    ELSE [t |-> 0, m |-> s * a, e |-> e]

\* a mantissa that rounding carried up to 10^Digits keeps Digits digits
Carry(s, a, e) == IF a >= Pow10(Digits) THEN Pack(s, a \div 10, e + 1) ELSE Pack(s, a, e)

\* s * a * 10^e for a mantissa a that has Digits + k digits, rounded to the
\* nearest number of Digits digits
Round(s, a, e, k) ==
    IF k > 0
    THEN Carry(s, (a + 5 * Pow10(k - 1)) \div Pow10(k), e + k)
    ELSE Pack(s, a * Pow10(-k), e + k)

\* the finite number s * a * 10^e for any 0 <= a <= 2 * 10^9, rounded
Norm(s, a, e) == IF a = 0 THEN Zero ELSE Round(s, a, e, NumDigits(a) - Digits)

\* a numeric literal: Num(28815, -2) is 288.15
Num(n, e) == Norm(Sgn(n), Abs(n), e)

One == Num(1, 0)

Two == Num(2, 0)

IsNaN(a) == a.t = 2

IsFinite(a) == a.t = 0

FNeg(a) == IF a.t = 2 THEN NaN ELSE [t |-> -a.t, m |-> -a.m, e |-> a.e]

\* the sign of a number that is not NaN
FSign(a) == IF a.t = 0 THEN Sgn(a.m) ELSE a.t

\* a < b; false when either is NaN
FLt(a, b) ==
    IF a.t = 2 \/ b.t = 2 THEN FALSE
    ELSE IF a.t # 0 \/ b.t # 0 THEN a.t # b.t /\ (a.t = -1 \/ b.t = 1)
    ELSE IF Sgn(a.m) # Sgn(b.m) THEN Sgn(a.m) < Sgn(b.m)
    ELSE IF a.m = 0 THEN FALSE
    ELSE IF a.m > 0 THEN a.e < b.e \/ (a.e = b.e /\ a.m < b.m)
    ELSE a.e > b.e \/ (a.e = b.e /\ a.m < b.m)

FEq(a, b) == a.t # 2 /\ b.t # 2 /\ a = b

FGt(a, b) == FLt(b, a)

FLe(a, b) == FLt(a, b) \/ FEq(a, b)

FGe(a, b) == FLt(b, a) \/ FEq(a, b)

\* the sum of the mantissas x and y of two finite non-zero numbers, x the one
\* whose exponent is larger by d; one guard digit is kept
AddMant(x, y, d) ==
    x * 10 + (IF d > Digits + 1 THEN 0 ELSE Sgn(y) * ((Abs(y) * 10) \div Pow10(d)))

SignedNorm(sum, e) == Norm(Sgn(sum), Abs(sum), e)

FAdd(a, b) ==
    IF a.t = 2 \/ b.t = 2 THEN NaN
    ELSE IF a.t # 0 THEN (IF b.t = -a.t THEN NaN ELSE a)
    ELSE IF b.t # 0 THEN b
    ELSE IF a.m = 0 THEN b
    ELSE IF b.m = 0 THEN a
    ELSE SignedNorm(IF a.e >= b.e THEN AddMant(a.m, b.m, a.e - b.e)
                                  ELSE AddMant(b.m, a.m, b.e - a.e),
                    (IF a.e >= b.e THEN a.e ELSE b.e) - 1)

FSub(a, b) == FAdd(a, FNeg(b))

\* the leading digits of the product of two mantissas x and y of Digits
\* digits, computed in halves of four digits to stay below 2^31
MulMant(x, y) ==
    ((x \div 10000) * (y \div 10000)) * 10
    + (((x \div 10000) * (y % 10000) + (x % 10000) * (y \div 10000)
        + (((x % 10000) * (y % 10000)) \div 10000)) \div 1000)

FMul(a, b) ==
    IF a.t = 2 \/ b.t = 2 THEN NaN
    ELSE IF a.t # 0 \/ b.t # 0 THEN
        (IF FSign(a) = 0 \/ FSign(b) = 0 THEN NaN ELSE Inf(FSign(a) * FSign(b)))
    ELSE Norm(Sgn(a.m) * Sgn(b.m), MulMant(Abs(a.m), Abs(b.m)), a.e + b.e + 7)

\* n further decimal digits of the quotient r / y, appended to q (r < y)
RECURSIVE LongDiv(_, _, _, _)
LongDiv(r, y, q, n) ==
    IF n = 0 THEN q
    ELSE LongDiv((r * 10) % y, y, q * 10 + ((r * 10) \div y), n - 1)

\* the quotient of two mantissas of Digits digits, to n places
DivMant(s, x, y, e, n) == Norm(s, LongDiv(x % y, y, x \div y, n), e - n)

FDiv(a, b) ==
    IF a.t = 2 \/ b.t = 2 THEN NaN
    ELSE IF a.t # 0 THEN (IF b.t # 0 THEN NaN ELSE Inf(a.t * (IF b.m < 0 THEN -1 ELSE 1)))
    ELSE IF b.t # 0 THEN Zero
    ELSE IF b.m = 0 THEN (IF a.m = 0 THEN NaN ELSE Inf(Sgn(a.m)))
    ELSE DivMant(Sgn(a.m) * Sgn(b.m), Abs(a.m), Abs(b.m), a.e - b.e,
                 IF Abs(a.m) < Abs(b.m) THEN Digits + 1 ELSE Digits)

\* Math.max: NaN when either argument is NaN
FMax(a, b) == IF a.t = 2 \/ b.t = 2 THEN NaN ELSE IF FLt(a, b) THEN b ELSE a

\* the largest integer x with x * x <= n, by Newton's iteration from above
RECURSIVE ISqrt(_, _)
ISqrt(n, x) ==
    IF (x + (n \div x)) \div 2 >= x THEN x ELSE ISqrt(n, (x + (n \div x)) \div 2)

\* the integer root of the mantissa of a > 0, as a first estimate
SqrtEstimate(a) ==
    IF a.e % 2 = 1
    THEN Norm(1, ISqrt(a.m * 10, 31623), (a.e - 1) \div 2)
    ELSE Norm(1, ISqrt(a.m, 31623), a.e \div 2)

\* one Newton step for the square root of a, from the estimate x0
NewtonStep(a, x0) == FMul(Num(5, -1), FAdd(x0, FDiv(a, x0)))

\* Math.sqrt
FSqrt(a) ==
    IF a.t = 2 \/ a.t = -1 THEN NaN
    ELSE IF a.t = 1 THEN PInf
    ELSE IF a.m < 0 THEN NaN
    ELSE IF a.m = 0 THEN Zero
    ELSE NewtonStep(a, SqrtEstimate(a))

\* the integer part floor(a) of a finite number below 10^9 in size
FloorInt(a) ==
    IF a.m = 0 THEN 0
    ELSE IF a.e >= 0 THEN a.m * Pow10(a.e)
    ELSE IF -a.e > Digits THEN (IF a.m < 0 THEN -1 ELSE 0)
    ELSE (a.m \div Pow10(-a.e))

Ln10 == Num(23025851, -7)

\* 1, 1/3, 1/5, 1/7 and 1/9
OddReciprocals ==
    <<One, Num(33333333, -8), Num(2, -1), Num(14285714, -8), Num(11111111, -8)>>

\* 1 + t2/3 + t2^2/5 + ... + t2^j/(2j+1), by Horner's rule from the last
\* term; a sum that is no longer finite is final
RECURSIVE AtanhSeries(_, _, _)
AtanhSeries(t2, j, acc) ==
    IF acc.t # 0 \/ j < 0 THEN acc
    ELSE AtanhSeries(t2, j - 1, FAdd(OddReciprocals[j + 1], FMul(t2, acc)))

\* 2 * atanh(t) = ln((1 + t) / (1 - t)) for |t| < 1/8
LnOfRatio(t) == FMul(Two, FMul(t, AtanhSeries(FMul(t, t), 4, Zero)))

\* ln z for z in (0.8, 1.28)
LnCore(z) == LnOfRatio(FDiv(FSub(z, One), FAdd(z, One)))

\* the scalings that bring z from [0.8, 10) into [0.8, 1.28): from the
\* threshold on, z is multiplied by the factor, whose logarithm negated is
\* the third entry (ln 10, ln 4, ln 2, ln 1.6, ln 1.25)
LnSteps ==
    << <<Num(8, 0), Num(1, -1), Ln10>>,
       <<Num(4, 0), Num(25, -2), Num(13862944, -7)>>,
       <<Two, Num(5, -1), Num(69314718, -8)>>,
       <<Num(16, -1), Num(625, -3), Num(47000363, -8)>>,
       <<Num(125, -2), Num(8, -1), Num(22314355, -8)>> >>

\* acc + ln z for z in [0.8, 10), by the scalings from the i-th on
RECURSIVE LnReduce(_, _, _)
LnReduce(z, acc, i) ==
    IF acc.t # 0 THEN acc
    ELSE IF i > Len(LnSteps) THEN FAdd(LnCore(z), acc)
    ELSE IF FGe(z, LnSteps[i][1])
    THEN LnReduce(FMul(z, LnSteps[i][2]), FAdd(acc, LnSteps[i][3]), i + 1)
    ELSE LnReduce(z, acc, i + 1)

\* Math.log: the mantissa in [1, 10) and the decimal exponent are separated
FLn(a) ==
    IF a.t = 2 \/ a.t = -1 THEN NaN
    ELSE IF a.t = 1 THEN PInf
    ELSE IF a.m < 0 THEN NaN
    ELSE IF a.m = 0 THEN NInf
    ELSE LnReduce([t |-> 0, m |-> a.m, e |-> 1 - Digits],
                  FMul(Num(a.e + Digits - 1, 0), Ln10), 1)

\* 1/0!, 1/1!, ..., 1/5!
InvFactorials ==
    <<One, One, Num(5, -1), Num(16666667, -8), Num(41666667, -9), Num(83333333, -10)>>

\* e^(j/8) for j = -10, ..., 10
ExpEighths ==
    <<Num(2865048, -7), Num(32465247, -8), Num(36787944, -8),
      Num(41686202, -8), Num(47236655, -8), Num(53526143, -8),
      Num(60653066, -8), Num(68728928, -8), Num(77880078, -8),
      Num(8824969, -7), Num(1, 0), Num(11331485, -7),
      Num(12840254, -7), Num(14549914, -7), Num(16487213, -7),
      Num(1868246, -6), Num(2117, -3), Num(23988753, -7),
      Num(27182818, -7), Num(30802168, -7), Num(3490343, -6)>>

\* 1 + r + r^2/2! + ... + r^k/k!, by Horner's rule from the last term; a
\* sum that is no longer finite is final
RECURSIVE ExpSeries(_, _, _)
ExpSeries(r, k, acc) ==
    IF acc.t # 0 \/ k < 0 THEN acc
    ELSE ExpSeries(r, k - 1, FAdd(InvFactorials[k + 1], FMul(r, acc)))

\* e^r = e^(j/8) * e^(r - j/8) for |r| <= 1.25 and j = round(8 r)
ExpEighth(r, j) ==
    FMul(ExpEighths[j + 11], ExpSeries(FSub(r, Num(125 * j, -3)), 5, Zero))

ExpSmall(r) == ExpEighth(r, FloorInt(FAdd(FMul(r, Num(8, 0)), Num(5, -1))))

\* p * 10^q
ExpScale(p, q) == Pack(1, p.m, p.e + q)

\* e^w = 10^q * e^r with r = w - q ln 10 and |r| <= 1.16, ln 10 being
\* subtracted in two parts, 2.302 and 0.000585093
ExpReduce(w, q) ==
    ExpScale(ExpSmall(FSub(FSub(w, FMul(Num(q, 0), Num(2302, -3))),
                           FMul(Num(q, 0), Num(585093, -9)))), q)

\* Math.exp, with q = round(w / ln 10)
FExp(w) ==
    IF w.t = 2 THEN NaN
    ELSE IF w.t = 1 THEN PInf
    ELSE IF w.t = -1 THEN Zero
    ELSE IF FGt(w, Num(710, 0)) THEN PInf
    ELSE IF FLt(w, Num(-760, 0)) THEN Zero
    ELSE ExpReduce(w, FloorInt(FAdd(FMul(w, Num(43429448, -8)), Num(5, -1))))

\* Math.pow for the program's exponents, which are non-integer constants:
\* a negative base gives NaN
FPow(x, y) ==
    IF y.t = 0 /\ y.m = 0 THEN One
    ELSE IF x.t = 2 \/ y.t = 2 THEN NaN
    ELSE IF x.t = -1 \/ (x.t = 0 /\ x.m < 0) THEN NaN
    ELSE FExp(FMul(y, FLn(x)))

\* ------------------------------------------------------------------------
\* src/services/engineService.ts: constants and helpers

R_GAS == Num(28705, -2)

G == Num(980665, -5)

\* an atmosphere whose troposphere ends just below 11000 m
AtmosphereAtBelow(H) ==
    IF FLt(H, Num(11000, 0))
    THEN [T0 |-> FSub(Num(28815, -2), FMul(Num(65, -4), H)),
          P0 |-> FMul(Num(101325, 0),
                      FPow(FSub(One, FDiv(FMul(Num(65, -4), H), Num(28815, -2))),
                           Num(525588, -5)))]
    ELSE [T0 |-> Num(21665, -2),
          P0 |-> FMul(Num(226321, -1),
                      FExp(FDiv(FMul(FNeg(G), FSub(H, Num(11000, 0))),
                                FMul(R_GAS, Num(21665, -2)))))]

\* the standard atmosphere at the height of H metres
AtmosphereAt(H) ==
    IF FLe(H, Num(11000, 0))
    THEN [T0 |-> FSub(Num(28815, -2), FMul(Num(65, -4), H)),
          P0 |-> FMul(Num(101325, 0),
                      FPow(FSub(One, FDiv(FMul(Num(65, -4), H), Num(28815, -2))),
                           Num(525588, -5)))]
    ELSE [T0 |-> Num(21665, -2),
          P0 |-> FMul(Num(226321, -1),
                      FExp(FDiv(FMul(FNeg(G), FSub(H, Num(11000, 0))),
                                FMul(R_GAS, Num(21665, -2)))))]

getAtmosphere(altitudeKm) == AtmosphereAt(FMul(altitudeKm, Num(1000, 0)))

PROP_COLD == [cp |-> Num(1005, 0), k |-> Num(14, -1)]

PROP_HOT == [cp |-> Num(1150, 0), k |-> Num(133, -2)]

isentropicT(T_in, pi, k, eta, isCompressor) ==
    LET k_minus_1_over_k == FDiv(FSub(k, One), k)
    IN  IF isCompressor
        THEN FMul(T_in, FAdd(One, FDiv(FSub(FPow(pi, k_minus_1_over_k), One), eta)))
        ELSE IF FLe(pi, Zero) THEN T_in
        ELSE FMul(T_in, FSub(One, FMul(FSub(One, FPow(FDiv(One, pi), k_minus_1_over_k)), eta)))

getGammaExp(k) == FDiv(k, FSub(k, One))

\* the ram temperature ratio of flight at the Mach number mach
RamRatio(mach) == FAdd(One, FMul(FMul(FDiv(FSub(PROP_COLD.k, One), Two), mach), mach))

\* a stagnation state that leaves the ram compression out of the pressure
InletStagnationWithoutRam(atm, tau_r, recovery) ==
    [Tt2 |-> FMul(atm.T0, tau_r), Pt2 |-> FMul(atm.P0, recovery)]

\* the stagnation state behind the inlet, from the ambient state atm and the
\* ram temperature ratio tau_r
InletStagnation(atm, tau_r, recovery) ==
    [Tt2 |-> FMul(atm.T0, tau_r),
     Pt2 |-> FMul(FMul(atm.P0, FPow(tau_r, getGammaExp(PROP_COLD.k))), recovery)]

getInletConditions(altitude, mach, recovery) ==
    InletStagnation(getAtmosphere(altitude), RamRatio(mach), recovery)

\* ------------------------------------------------------------------------
\* calculateCycle, block by block.  Each block receives the record s of the
\* local variables assigned so far and returns it with its own assignments;
\* an assignment to a variable that s already holds replaces its value.

\* section 1: the ambient state (station 0) and the flight speed
AmbientSpeed(inputs, atm) ==
    [T0 |-> atm.T0, P0 |-> atm.P0,
     V0 |-> FMul(inputs.mach, FSqrt(FMul(FMul(PROP_COLD.k, R_GAS), atm.T0)))]

Ambient(inputs) == AmbientSpeed(inputs, getAtmosphere(inputs.altitude))

\* section 2: the inlet (0 -> 2)
InletRam(inputs, s) == [tau_r |-> RamRatio(inputs.mach)] @@ s

InletTotal(s) ==
    [pi_r |-> FPow(s.tau_r, getGammaExp(PROP_COLD.k)), Tt0 |-> FMul(s.T0, s.tau_r)] @@ s

\* an inlet whose recovery coefficient divides the total pressure
InletExitGaining(inputs, s) ==
    [Pt0 |-> FMul(s.P0, s.pi_r), Tt2 |-> s.Tt0,
     Pt2 |-> FDiv(FMul(s.P0, s.pi_r), inputs.pressureRecoveryInlet)] @@ s

InletExit(inputs, s) ==
    [Pt0 |-> FMul(s.P0, s.pi_r), Tt2 |-> s.Tt0,
     Pt2 |-> FMul(FMul(s.P0, s.pi_r), inputs.pressureRecoveryInlet)] @@ s

\* section 3: the fan (2 -> 13 bypass / 21 core)
FanRise(inputs, s) ==
    [Pt13 |-> FMul(s.Pt2, inputs.fanPressureRatio),
     Tt13 |-> isentropicT(s.Tt2, inputs.fanPressureRatio, PROP_COLD.k,
                          inputs.efficiencyFan, TRUE)] @@ s

FanSplit(s) == [Pt21 |-> s.Pt13, Tt21 |-> s.Tt13] @@ s

\* section 4: the high-pressure compressor (21 -> 3)
\* a compressor ratio without its floor
CompressorRatioUnclamped(inputs, s) ==
    [pi_ch |-> FDiv(inputs.overallPressureRatio, inputs.fanPressureRatio)] @@ s

CompressorRatio(inputs, s) ==
    [pi_ch |-> FMax(Num(11, -1),
                    FDiv(inputs.overallPressureRatio, inputs.fanPressureRatio))] @@ s

\* a compressor that works at the efficiency of the low-pressure compressor
CompressorRiseOfLPC(inputs, s) ==
    [Pt3 |-> FMul(s.Pt21, s.pi_ch),
     Tt3 |-> isentropicT(s.Tt21, s.pi_ch, PROP_COLD.k, inputs.efficiencyLPC, TRUE)] @@ s

CompressorRise(inputs, s) ==
    [Pt3 |-> FMul(s.Pt21, s.pi_ch),
     Tt3 |-> isentropicT(s.Tt21, s.pi_ch, PROP_COLD.k, inputs.efficiencyHPC, TRUE)] @@ s

\* section 5: the burner (3 -> 4) and the fuel-air ratio f
BurnerExit(inputs, s) ==
    [Pt4 |-> FMul(s.Pt3, inputs.pressureRecoveryBurner),
     Tt4 |-> inputs.turbineEntryTemp,
     Hu_J |-> FMul(inputs.heatingValue, Num(1, 6))] @@ s

EnergyBalance(inputs, s) ==
    [numerator |-> FSub(FMul(PROP_HOT.cp, s.Tt4), FMul(PROP_COLD.cp, s.Tt3)),
     denominator |-> FSub(FMul(inputs.efficiencyBurner, s.Hu_J),
                          FMul(PROP_HOT.cp, s.Tt4))] @@ s

\* a fuel-air ratio without its floor
FuelAirRatioRaw(s) == [f |-> FDiv(s.numerator, s.denominator)] @@ s

FuelAirRatio(s) == [f |-> FMax(Zero, FDiv(s.numerator, s.denominator))] @@ s

\* section 6: the high-pressure turbine (4 -> 4.5), which drives the
\* compressor; Pt45 starts at Pt4 and isValid at true
TurbineHighWork(inputs, s) ==
    LET work_req_HPC == FMul(PROP_COLD.cp, FSub(s.Tt3, s.Tt21))
        work_avail_HPT == FDiv(work_req_HPC, inputs.mechEfficiencyHigh)
        deltaT_HPT == FDiv(work_avail_HPT, FMul(FAdd(One, s.f), PROP_HOT.cp))
    IN  [Tt45 |-> FSub(s.Tt4, deltaT_HPT), Pt45 |-> s.Pt4, isValid |-> TRUE] @@ s

\* a check of the high-pressure turbine that does not compare Tt45 with Tt3
TurbineHighCheckOfRatio(s) == [temp_ratio_HPT |-> FDiv(s.Tt45, s.Tt4)] @@ s

TurbineHighCheck(s) ==
    [isValid |-> IF FLt(s.Tt45, s.Tt3) THEN FALSE ELSE s.isValid,
     temp_ratio_HPT |-> FDiv(s.Tt45, s.Tt4)] @@ s

TurbineHighPressure(s) ==
    IF FGe(s.pressure_term_HPT, One) THEN [isValid |-> FALSE] @@ s
    ELSE [Pt45 |-> FDiv(s.Pt4, FPow(FDiv(One, FSub(One, s.pressure_term_HPT)),
                                    getGammaExp(PROP_HOT.k)))] @@ s

TurbineHighExpansion(inputs, s) ==
    IF FLe(s.temp_ratio_HPT, Zero) \/ FGe(s.temp_ratio_HPT, One)
    THEN [isValid |-> FALSE] @@ s
    ELSE TurbineHighPressure(
             [pressure_term_HPT |-> FDiv(FSub(One, s.temp_ratio_HPT),
                                         inputs.efficiencyHPT)] @@ s)

\* section 7: the low-pressure turbine (4.5 -> 5), which drives the fan;
\* Pt5 starts at Pt45
TurbineLowWork(inputs, s) ==
    LET work_req_Fan == FMul(FMul(FAdd(One, inputs.bypassRatio), PROP_COLD.cp),
                             FSub(s.Tt13, s.Tt2))
        work_extraction_LPT == FDiv(work_req_Fan, inputs.mechEfficiencyLow)
        deltaT_LPT == FDiv(work_extraction_LPT, FMul(FAdd(One, s.f), PROP_HOT.cp))
    IN  [Tt5 |-> FSub(s.Tt45, deltaT_LPT), Pt5 |-> s.Pt45] @@ s

\* a low-pressure turbine check that sets the flag afresh, forgetting what
\* the high-pressure turbine found
TurbineLowCheckAfresh(s) ==
    [isValid |-> ~FLt(s.Tt5, s.T0), temp_ratio_LPT |-> FDiv(s.Tt5, s.Tt45)] @@ s

TurbineLowCheck(s) ==
    [isValid |-> IF FLt(s.Tt5, s.T0) THEN FALSE ELSE s.isValid,
     temp_ratio_LPT |-> FDiv(s.Tt5, s.Tt45)] @@ s

TurbineLowPressure(s) ==
    IF FGe(s.pressure_term_LPT, One) THEN [isValid |-> FALSE] @@ s
    ELSE [Pt5 |-> FDiv(s.Pt45, FPow(FDiv(One, FSub(One, s.pressure_term_LPT)),
                                    getGammaExp(PROP_HOT.k)))] @@ s

\* a low-pressure turbine that computes its outlet pressure before it looks
\* at its checks
TurbineLowExpansionUnguarded(inputs, s) ==
    LET pressure_term_LPT == FDiv(FSub(One, s.temp_ratio_LPT), inputs.efficiencyLPT)
        failed == \/ FLe(s.temp_ratio_LPT, Zero) \/ FGe(s.temp_ratio_LPT, One)
                  \/ FGe(pressure_term_LPT, One)
    IN  [isValid |-> IF failed THEN FALSE ELSE s.isValid,
         pressure_term_LPT |-> pressure_term_LPT,
         Pt5 |-> FDiv(s.Pt45, FPow(FDiv(One, FSub(One, pressure_term_LPT)),
                                   getGammaExp(PROP_HOT.k)))] @@ s

TurbineLowExpansion(inputs, s) ==
    IF FLe(s.temp_ratio_LPT, Zero) \/ FGe(s.temp_ratio_LPT, One)
    THEN [isValid |-> FALSE] @@ s
    ELSE TurbineLowPressure(
             [pressure_term_LPT |-> FDiv(FSub(One, s.temp_ratio_LPT),
                                         inputs.efficiencyLPT)] @@ s)

\* section 8, the core nozzle (9): P9, T9 and V9 start at P0, Tt5 and 0
CoreNozzleEntry(inputs, s) ==
    [Pt9 |-> FMul(s.Pt5, inputs.pressureRecoveryNozzle),
     P9 |-> s.P0, T9 |-> s.Tt5, V9 |-> Zero] @@ s

CoreChoked(s) == [V9 |-> FSqrt(FMul(FMul(PROP_HOT.k, R_GAS), s.T9))] @@ s

CoreExpanded(s) ==
    [V9 |-> FSqrt(FMax(Zero, FMul(FMul(Two, PROP_HOT.cp), FSub(s.Tt5, s.T9))))] @@ s

CoreUnchoked(s) ==
    IF FGt(s.Pt9, s.P0)
    THEN CoreExpanded(
             [T9 |-> FMul(s.Tt5, FPow(FDiv(s.P0, s.Pt9),
                                      FDiv(FSub(PROP_HOT.k, One), PROP_HOT.k)))] @@ s)
    ELSE [isValid |-> FALSE] @@ s

CoreNozzleFlow(s) ==
    IF FGt(FDiv(s.Pt9, s.P0), s.critical_ratio_hot)
    THEN CoreChoked([P9 |-> FDiv(s.Pt9, s.critical_ratio_hot),
                     T9 |-> FMul(s.Tt5, FDiv(Two, FAdd(PROP_HOT.k, One)))] @@ s)
    ELSE CoreUnchoked([P9 |-> s.P0] @@ s)

\* the pressure ratio at which the nozzle chokes, the same in every call
critical_ratio_hot ==
    FPow(FDiv(FAdd(PROP_HOT.k, One), Two), getGammaExp(PROP_HOT.k))

CoreNozzleExit(s) ==
    IF s.isValid
    THEN CoreNozzleFlow([critical_ratio_hot |-> critical_ratio_hot] @@ s)
    ELSE s

\* section 8, the bypass nozzle (19): P19, T19 and V19 start at P0, Tt13
\* and 0
BypassNozzleEntry(inputs, s) ==
    [Pt19 |-> FMul(s.Pt13, inputs.pressureRecoveryNozzle),
     P19 |-> s.P0, T19 |-> s.Tt13, V19 |-> Zero] @@ s

BypassChoked(s) == [V19 |-> FSqrt(FMul(FMul(PROP_COLD.k, R_GAS), s.T19))] @@ s

BypassExpanded(s) ==
    [V19 |-> FSqrt(FMax(Zero, FMul(FMul(Two, PROP_COLD.cp), FSub(s.Tt13, s.T19))))] @@ s

\* a bypass nozzle that clears isValid, as the core nozzle does, when its
\* total pressure is not above the ambient pressure
BypassUnchokedInvalidating(s) ==
    IF FGt(s.Pt19, s.P0)
    THEN BypassExpanded(
             [T19 |-> FMul(s.Tt13, FPow(FDiv(s.P0, s.Pt19),
                                        FDiv(FSub(PROP_COLD.k, One), PROP_COLD.k)))] @@ s)
    ELSE [isValid |-> FALSE] @@ s

BypassUnchoked(s) ==
    IF FGt(s.Pt19, s.P0)
    THEN BypassExpanded(
             [T19 |-> FMul(s.Tt13, FPow(FDiv(s.P0, s.Pt19),
                                        FDiv(FSub(PROP_COLD.k, One), PROP_COLD.k)))] @@ s)
    ELSE s

\* a bypass nozzle that reports the ambient pressure at its exit when it is
\* choked as well
BypassNozzleFlowAtAmbient(s) ==
    IF FGt(FDiv(s.Pt19, s.P0), s.critical_ratio_cold)
    THEN BypassChoked([P19 |-> s.P0,
                       T19 |-> FMul(s.Tt13, FDiv(Two, FAdd(PROP_COLD.k, One)))] @@ s)
    ELSE BypassUnchoked([P19 |-> s.P0] @@ s)

BypassNozzleFlow(s) ==
    IF FGt(FDiv(s.Pt19, s.P0), s.critical_ratio_cold)
    THEN BypassChoked([P19 |-> FDiv(s.Pt19, s.critical_ratio_cold),
                       T19 |-> FMul(s.Tt13, FDiv(Two, FAdd(PROP_COLD.k, One)))] @@ s)
    ELSE BypassUnchoked([P19 |-> s.P0] @@ s)

\* the pressure ratio at which the nozzle chokes, the same in every call
critical_ratio_cold ==
    FPow(FDiv(FAdd(PROP_COLD.k, One), Two), getGammaExp(PROP_COLD.k))

\* a bypass nozzle that expands the flow of an invalid cycle as well
BypassNozzleExitUnguarded(s) ==
    BypassNozzleFlow([critical_ratio_cold |-> critical_ratio_cold] @@ s)

BypassNozzleExit(s) ==
    IF s.isValid
    THEN BypassNozzleFlow([critical_ratio_cold |-> critical_ratio_cold] @@ s)
    ELSE s

\* the element of a set of one element
Only(S) == CHOOSE x \in S : TRUE

\* section 9: the performance summary; its six numbers start at 0
PerformanceEntry(s) ==
    [specific_thrust |-> Zero, total_thrust |-> Zero, sfc |-> Zero,
     thermalEfficiency |-> Zero, propulsiveEfficiency |-> Zero,
     overallEfficiency |-> Zero] @@ s

Densities(s) ==
    [rho9 |-> FDiv(s.P9, FMul(R_GAS, s.T9)),
     rho19 |-> FDiv(s.P19, FMul(R_GAS, s.T19))] @@ s

Areas(inputs, s) ==
    [A9_per_unit |-> FDiv(FAdd(One, s.f), FMul(s.rho9, s.V9)),
     A19_per_unit |-> FDiv(inputs.bypassRatio, FMul(s.rho19, s.V19))] @@ s

Forces(inputs, s) ==
    [F_core |-> FAdd(FSub(FMul(FAdd(One, s.f), s.V9), FMul(One, s.V0)),
                     FMul(FSub(s.P9, s.P0), s.A9_per_unit)),
     F_bypass |-> FAdd(FSub(FMul(inputs.bypassRatio, s.V19),
                            FMul(inputs.bypassRatio, s.V0)),
                       FMul(FSub(s.P19, s.P0), s.A19_per_unit))] @@ s

SpecificThrust(inputs, s) ==
    [specific_thrust |-> FDiv(FAdd(s.F_core, s.F_bypass),
                              FAdd(One, inputs.bypassRatio))] @@ s

TotalThrust(inputs, s) ==
    [total_thrust |-> FMul(s.specific_thrust, inputs.massFlow)] @@ s

FuelConsumption(inputs, s) ==
    IF FGt(s.total_thrust, Zero)
    THEN LET m_fuel == FMul(s.f, FDiv(inputs.massFlow, FAdd(One, inputs.bypassRatio)))
         IN  [sfc |-> FDiv(FMul(m_fuel, Num(3600, 0)), s.total_thrust)] @@ s
    ELSE s

EffectiveVelocities(s) ==
    [V9_eff |-> IF FGt(s.V9, One) /\ FGt(s.rho9, Zero)
                THEN FAdd(s.V9, FDiv(FSub(s.P9, s.P0), FMul(s.rho9, s.V9)))
                ELSE s.V9,
     V19_eff |-> IF FGt(s.V19, One) /\ FGt(s.rho19, Zero)
                 THEN FAdd(s.V19, FDiv(FSub(s.P19, s.P0), FMul(s.rho19, s.V19)))
                 ELSE s.V19] @@ s

CoreMassFlow(inputs, s) ==
    [m_core_abs |-> FDiv(inputs.massFlow, FAdd(One, inputs.bypassRatio))] @@ s

Energies(inputs, s) ==
    [KE_out_eff |-> FAdd(FMul(FMul(FMul(Num(5, -1), s.m_core_abs), FAdd(One, s.f)),
                              FMul(s.V9_eff, s.V9_eff)),
                         FMul(FMul(Num(5, -1), FSub(inputs.massFlow, s.m_core_abs)),
                              FMul(s.V19_eff, s.V19_eff))),
     KE_in |-> FMul(FMul(Num(5, -1), inputs.massFlow), FMul(s.V0, s.V0)),
     Q_in |-> FMul(FMul(s.m_core_abs, s.f), s.Hu_J)] @@ s

PropulsiveEfficiency(s) ==
    IF FGt(FSub(s.KE_out_eff, s.KE_in), Zero)
    THEN [propulsiveEfficiency |-> FDiv(FMul(s.total_thrust, s.V0),
                                        FSub(s.KE_out_eff, s.KE_in))] @@ s
    ELSE s

Efficiencies(s) ==
    IF FGt(s.Q_in, Zero)
    THEN PropulsiveEfficiency(
             [thermalEfficiency |-> FDiv(FSub(s.KE_out_eff, s.KE_in), s.Q_in)] @@ s)
    ELSE s

OverallEfficiency(s) ==
    [overallEfficiency |-> FMul(s.thermalEfficiency, s.propulsiveEfficiency)] @@ s

\* the body of "if (isValid)": its blocks are applied one after the other,
\* each to the variables the blocks before it have left
Summary(inputs, s0) ==
    Only({ OverallEfficiency(Efficiencies(Energies(inputs, CoreMassFlow(inputs, s)))) :
        s \in { EffectiveVelocities(FuelConsumption(inputs, TotalThrust(inputs, s))) :
        s \in { SpecificThrust(inputs, Forces(inputs, Areas(inputs, Densities(s)))) :
        s \in {s0} } } })

Performance(inputs, s) == IF s.isValid THEN Summary(inputs, s) ELSE s

\* a clean-up that replaces the infinities and lets NaN through
SanitizeOfInfinity(x) == IF ~IsNaN(x) /\ ~IsFinite(x) THEN Zero ELSE x

\* the clean-up of a headline number: NaN and the infinities become 0
Sanitize(x) == IF IsNaN(x) \/ ~IsFinite(x) THEN Zero ELSE x

\* the final clamp of the propulsive efficiency
ClampPropulsive(propulsiveEfficiency) ==
    IF FGt(propulsiveEfficiency, One) THEN Num(999, -3) ELSE propulsiveEfficiency

\* a clean-up that also declares a cycle without positive thrust invalid,
\* and leaves its numbers as they are
CleanUpInvalidating(s) ==
    [isValid |-> s.isValid /\ FGt(s.total_thrust, Zero),
     specific_thrust |-> Sanitize(s.specific_thrust),
     total_thrust |-> Sanitize(s.total_thrust),
     sfc |-> Sanitize(s.sfc),
     propulsiveEfficiency |-> ClampPropulsive(s.propulsiveEfficiency)] @@ s

CleanUp(s) ==
    [specific_thrust |-> Sanitize(s.specific_thrust),
     total_thrust |-> Sanitize(s.total_thrust),
     sfc |-> Sanitize(s.sfc),
     propulsiveEfficiency |-> ClampPropulsive(s.propulsiveEfficiency)] @@ s

\* one entry of the station list; the source's names carry a Chinese title
\* before the English one kept here
Station(name, label, temp, pressure, isTotal) ==
    [name |-> name, label |-> label, temp |-> temp, pressure |-> pressure,
     isTotal |-> isTotal]

\* a station list that leaves the bypass nozzle out
StationsOfCore(s) ==
    << Station("Ambient", "0", s.T0, s.P0, FALSE),
       Station("Inlet", "2", s.Tt2, s.Pt2, TRUE),
       Station("Fan", "2.5", s.Tt13, s.Pt13, TRUE),
       Station("HPC", "3", s.Tt3, s.Pt3, TRUE),
       Station("Burner", "4", s.Tt4, s.Pt4, TRUE),
       Station("HPT", "4.5", s.Tt45, s.Pt45, TRUE),
       Station("LPT", "5", s.Tt5, s.Pt5, TRUE),
       Station("Core Nozzle", "9", s.T9, s.P9, TRUE) >>

Stations(s) ==
    << Station("Ambient", "0", s.T0, s.P0, FALSE),
       Station("Inlet", "2", s.Tt2, s.Pt2, TRUE),
       Station("Fan", "2.5", s.Tt13, s.Pt13, TRUE),
       Station("HPC", "3", s.Tt3, s.Pt3, TRUE),
       Station("Burner", "4", s.Tt4, s.Pt4, TRUE),
       Station("HPT", "4.5", s.Tt45, s.Pt45, TRUE),
       Station("LPT", "5", s.Tt5, s.Pt5, TRUE),
       Station("Core Nozzle", "9", s.T9, s.P9, FALSE),
       Station("Bypass Nozzle", "19", s.T19, s.P19, FALSE) >>

\* the returned record
Result(inputs, s) ==
    [stations |-> Stations(s),
     performance |->
        [thrust |-> s.total_thrust,
         specificThrust |-> s.specific_thrust,
         sfc |-> s.sfc,
         massFlowRateAir |-> inputs.massFlow,
         fuelAirRatio |-> s.f,
         bypassVelocity |-> s.V19,
         coreVelocity |-> s.V9,
         thermalEfficiency |-> s.thermalEfficiency,
         propulsiveEfficiency |-> s.propulsiveEfficiency,
         overallEfficiency |-> s.overallEfficiency,
         fanPressureRatio |-> inputs.fanPressureRatio,
         hpcPressureRatio |-> s.pi_ch,
         isValid |-> s.isValid]]

\* the local variables at the end of the body: the sections are applied one
\* after the other, each to the variables the sections before it have left
Cycle(inputs) ==
    Only({ CleanUp(Performance(inputs, PerformanceEntry(s))) :
        s \in { BypassNozzleExit(BypassNozzleEntry(inputs, s)) :
        s \in { CoreNozzleExit(CoreNozzleEntry(inputs, s)) :
        s \in { TurbineLowExpansion(inputs, TurbineLowCheck(TurbineLowWork(inputs, s))) :
        s \in { TurbineHighExpansion(inputs, TurbineHighCheck(TurbineHighWork(inputs, s))) :
        s \in { FuelAirRatio(EnergyBalance(inputs, BurnerExit(inputs, s))) :
        s \in { CompressorRise(inputs, CompressorRatio(inputs, s)) :
        s \in { FanSplit(FanRise(inputs, s)) :
        s \in { InletExit(inputs, InletTotal(InletRam(inputs, s))) :
        s \in { Ambient(inputs) } } } } } } } } } })

calculateCycle(inputs) == Result(inputs, Cycle(inputs))

DEFAULT_INPUTS ==
    [altitude |-> Num(107, -1), mach |-> Num(83, -2), massFlow |-> Num(1350, 0),
     bypassRatio |-> Num(9, 0), overallPressureRatio |-> Num(42, 0),
     fanPressureRatio |-> Num(165, -2), turbineEntryTemp |-> Num(1650, 0),
     heatingValue |-> Num(431, -1),
     efficiencyFan |-> Num(92, -2), efficiencyLPC |-> Num(90, -2),
     efficiencyHPC |-> Num(90, -2), efficiencyBurner |-> Num(995, -3),
     efficiencyHPT |-> Num(92, -2), efficiencyLPT |-> Num(93, -2),
     pressureRecoveryInlet |-> Num(98, -2), pressureRecoveryBurner |-> Num(96, -2),
     pressureRecoveryNozzle |-> Num(99, -2),
     mechEfficiencyHigh |-> Num(99, -2), mechEfficiencyLow |-> Num(99, -2)]

\* ------------------------------------------------------------------------
\* The calls.  One behaviour is one call of an exported function of
\* services/engineService.ts: `fn' names it, `inputs' is its argument (the
\* baseInputs of a sweep), `pc' is the position in it, `loop' holds the loop
\* variables of a sweep, `points' the array being filled (named data in
\* calculateEnvelope), `res' what the latest iteration did with its candidate,
\* `solves' the number of calculateCycle calls made so far and `result' the
\* value returned.  A caller that calls again keeps in `calls' the calls it
\* has made before, each with its argument and the value it returned, and
\* `ui' is the ResultsSection component that the result is displayed by: its
\* activeTab state, the result it was last rendered with and what it rendered.

VARIABLES inputs, fn, pc, loop, res, points, solves, result, calls, ui

vars == <<inputs, fn, pc, loop, res, points, solves, result, calls, ui>>

\* the values that the inputs of a call of calculateCycle are drawn from
Values ==
    [altitude |-> <<Num(0, 0), Num(107, -1), Num(20, 0)>>,
     mach |-> <<Num(0, 0), Num(83, -2), Num(2, 0), Num(3, 0)>>,
     bypassRatio |-> <<Num(0, 0), Num(5, 0), Num(9, 0), Num(15, 0)>>,
     fanPressureRatio |-> <<Num(11, -1), Num(165, -2), Num(4, 0), Num(25, -1)>>,
     overallPressureRatio |-> <<Num(10, 0), Num(42, 0), Num(60, 0), Num(4, 0), Num(25, 0)>>,
     turbineEntryTemp |-> <<Num(1000, 0), Num(1650, 0), Num(2200, 0)>>,
     pressureRecoveryInlet |-> <<Num(98, -2), Num(8, -1), Num(1, 0)>>,
     pressureRecoveryNozzle |-> <<Num(99, -2), Num(9, -1), Num(95, -2)>>]

NumAltitude == 2
NumMach == 3
NumBypass == 3
NumFan == 3
NumOverall == 4
NumTurbineTemp == 2
NumRecovery == 2

CycleInputs ==
    { [DEFAULT_INPUTS EXCEPT !.altitude = Values.altitude[a], !.mach = Values.mach[m],
                             !.bypassRatio = Values.bypassRatio[b],
                             !.fanPressureRatio = Values.fanPressureRatio[fp],
                             !.overallPressureRatio = Values.overallPressureRatio[op],
                             !.turbineEntryTemp = Values.turbineEntryTemp[tt],
                             !.pressureRecoveryInlet = Values.pressureRecoveryInlet[r],
                             !.pressureRecoveryNozzle = Values.pressureRecoveryNozzle[r]] :
        a \in 1..NumAltitude, m \in 1..NumMach, b \in 1..NumBypass, fp \in 1..NumFan,
        op \in 1..NumOverall, tt \in 1..NumTurbineTemp, r \in 1..NumRecovery }

NoResult == [stations |-> <<>>, performance |-> [isValid |-> FALSE]]

NoCandidate == [solved |-> FALSE, at |-> <<>>]

\* ResultsSection before its first render: useState('station')
NoUI == [activeTab |-> "station", result |-> NoResult, rendered |-> {}]

InitCycle ==
    /\ inputs \in CycleInputs
    /\ fn = "calculateCycle"
    /\ pc = "call"
    /\ loop = <<>>
    /\ res = NoCandidate
    /\ points = <<>>
    /\ solves = 0
    /\ result = NoResult
    /\ calls = <<>>
    /\ ui = NoUI

Solve ==
    /\ fn = "calculateCycle"
    /\ pc = "call"
    /\ result' = calculateCycle(inputs)
    /\ pc' = "returned"
    /\ solves' = solves + 1
    /\ UNCHANGED <<inputs, fn, loop, res, points, calls, ui>>

NextCycle == Solve

SpecCycle == InitCycle /\ [][NextCycle]_vars

\* ------------------------------------------------------------------------
\* Properties of calculateCycle, over SpecCycle

Returned == fn = "calculateCycle" /\ pc = "returned"

\* C1: whenever calculateCycle returns isValid = false, the returned thrust,
\* specificThrust and sfc are all exactly 0.
InvalidIsZeroed ==
    Returned /\ ~result.performance.isValid
        => /\ result.performance.thrust = Zero
           /\ result.performance.specificThrust = Zero
           /\ result.performance.sfc = Zero

\* an invalid cycle has been returned, one whose flight speed is not zero (so
\* that the thrust formula, had it run, would have produced ram drag)
InvalidReturned ==
    /\ Returned /\ ~result.performance.isValid
    /\ FGt(inputs.mach, Zero)
    /\ result.performance.thrust = Zero

\* C2: whenever calculateCycle returns isValid = true, the returned sfc is
\* >= 0 and the returned net thrust is >= 0.
ValidIsNonNegative ==
    Returned /\ result.performance.isValid
        => /\ FGe(result.performance.sfc, Zero)
           /\ FGe(result.performance.thrust, Zero)

\* a valid cycle has been returned whose net thrust is negative
ValidWithNegativeThrust ==
    /\ Returned /\ result.performance.isValid
    /\ FLt(result.performance.thrust, Zero)

\* C3: the propulsiveEfficiency returned by calculateCycle is <= 0.999 for
\* every input record, valid or invalid.
PropulsiveAtMost999 ==
    Returned => FLe(result.performance.propulsiveEfficiency, Num(999, -3))

\* a cycle has been returned whose propulsive efficiency is not a number
PropulsiveNotANumber ==
    Returned /\ IsNaN(result.performance.propulsiveEfficiency)

\* C4: calculateCycle returns, valid or invalid, exactly nine stations
\* labelled "0", "2", "2.5", "3", "4", "4.5", "5", "9", "19" in this order;
\* stations 0, 9 and 19 carry isTotal = false and the other six isTotal = true.
NineStations ==
    Returned
        => /\ Len(result.stations) = 9
           /\ [k \in 1..9 |-> result.stations[k].label]
                  = <<"0", "2", "2.5", "3", "4", "4.5", "5", "9", "19">>
           /\ \A k \in 1..9 : result.stations[k].isTotal <=> k \notin {1, 8, 9}

\* an invalid cycle has been returned with its station list
InvalidWithStations ==
    Returned /\ ~result.performance.isValid /\ Len(result.stations) > 0

\* the turbine feasibility checks, read off the returned stations
HighTurbineFails ==
    LET Tt3 == result.stations[4].temp
        Tt4 == result.stations[5].temp
        Tt45 == result.stations[6].temp
    IN  \/ FLt(Tt45, Tt3)
        \/ FLe(FDiv(Tt45, Tt4), Zero)
        \/ FGe(FDiv(Tt45, Tt4), One)
        \/ FGe(FDiv(FSub(One, FDiv(Tt45, Tt4)), inputs.efficiencyHPT), One)

LowTurbineFails ==
    LET T0 == result.stations[1].temp
        Tt45 == result.stations[6].temp
        Tt5 == result.stations[7].temp
    IN  \/ FLt(Tt5, T0)
        \/ FLe(FDiv(Tt5, Tt45), Zero)
        \/ FGe(FDiv(Tt5, Tt45), One)
        \/ FGe(FDiv(FSub(One, FDiv(Tt5, Tt45)), inputs.efficiencyLPT), One)

\* C5: calculateCycle returns isValid = false whenever any turbine check
\* fails (Tt45 < Tt3; Tt45/Tt4 <= 0 or >= 1; (1 - Tt45/Tt4)/efficiencyHPT >= 1;
\* Tt5 < T0; Tt5/Tt45 <= 0 or >= 1; (1 - Tt5/Tt45)/efficiencyLPT >= 1), and a
\* failure of the high-pressure turbine is not undone by what follows.
TurbineFailureInvalidates ==
    Returned /\ (HighTurbineFails \/ LowTurbineFails) => ~result.performance.isValid

\* a cycle has been returned whose high-pressure turbine failed while every
\* check of the low-pressure turbine passed
HighTurbineAloneFailed ==
    Returned /\ HighTurbineFails /\ ~LowTurbineFails /\ ~result.performance.isValid

\* the total pressures at the two nozzles, read off the returned stations
CoreStarved ==
    FLe(FMul(result.stations[7].pressure, inputs.pressureRecoveryNozzle),
        result.stations[1].pressure)

BypassStarved ==
    FLe(FMul(result.stations[3].pressure, inputs.pressureRecoveryNozzle),
        result.stations[1].pressure)

\* C6: for the core and for the bypass nozzle alike, a cycle that reaches the
\* nozzle valid, with the nozzle not choked and its total pressure (Pt9,
\* respectively Pt19) not above the ambient pressure P0, is returned with
\* isValid = false.  (A total pressure not above P0 is never choked, and the
\* flag is never set back to true after the turbines.)
StarvedNozzleInvalidates ==
    Returned /\ (CoreStarved \/ BypassStarved) => ~result.performance.isValid

\* a valid cycle has been returned whose bypass total pressure is not above
\* the ambient pressure
BypassStarvedYetValid ==
    Returned /\ BypassStarved /\ ~CoreStarved /\ result.performance.isValid

\* C11: the temperature of station "4" returned by calculateCycle is
\* inputs.turbineEntryTemp exactly, for every input; and in every valid cycle
\* whose recovery coefficients are <= 1 and whose fan pressure ratio is >= 1.1,
\* Pt2 <= Pt0, Pt3 > Pt2 and Pt4 <= Pt3.
BurnerAtEntryTemp ==
    Returned
        => /\ result.stations[5].temp = inputs.turbineEntryTemp
           /\ /\ result.performance.isValid
              /\ FLe(inputs.pressureRecoveryInlet, One)
              /\ FLe(inputs.pressureRecoveryBurner, One)
              /\ FGe(inputs.fanPressureRatio, Num(11, -1))
              => /\ FLe(result.stations[2].pressure, Cycle(inputs).Pt0)
                 /\ FGt(result.stations[4].pressure, result.stations[2].pressure)
                 /\ FLe(result.stations[5].pressure, result.stations[4].pressure)

\* a valid cycle has been returned whose inlet and burner have lost total
\* pressure and whose compression has raised it
ValidWithLosses ==
    /\ Returned /\ result.performance.isValid
    /\ FLt(inputs.pressureRecoveryInlet, One)
    /\ FLt(result.stations[2].pressure, Cycle(inputs).Pt0)
    /\ FLt(result.stations[5].pressure, result.stations[4].pressure)
    /\ result.stations[5].temp = inputs.turbineEntryTemp

\* C13: every input whose turbineEntryTemp is <= Tt3, the temperature at the
\* exit of the compressor, and whose compressor work is not negative is
\* invalid, because then Tt45 < Tt3 or Tt45/Tt4 >= 1: below that threshold
\* of the turbine entry temperature calculateCycle returns isValid = false.
BelowCompressorExitInvalid ==
    LET Tt21 == result.stations[3].temp
        Tt3 == result.stations[4].temp
        Tt4 == result.stations[5].temp
        Tt45 == result.stations[6].temp
    IN  /\ Returned
        /\ FLe(inputs.turbineEntryTemp, Tt3)
        /\ FGe(FMul(PROP_COLD.cp, FSub(Tt3, Tt21)), Zero)
        => /\ ~result.performance.isValid
           /\ FLt(Tt45, Tt3) \/ FGe(FDiv(Tt45, Tt4), One)

\* a cycle has been returned invalid whose turbine entry temperature is not
\* above Tt3 and which fails no other check of the high-pressure turbine
\* than Tt45 < Tt3
ColdEntryReturned ==
    /\ Returned /\ ~result.performance.isValid
    /\ FLe(inputs.turbineEntryTemp, result.stations[4].temp)
    /\ FGt(result.stations[4].temp, result.stations[3].temp)
    /\ FLt(result.stations[6].temp, result.stations[4].temp)
    /\ FGt(FDiv(result.stations[6].temp, result.stations[5].temp), Zero)
    /\ ~LowTurbineFails

\* C14: the thrust, specificThrust and sfc returned by calculateCycle are
\* finite numbers for every input: a NaN or an infinity arising in them is
\* replaced by 0 before the return.
HeadlineNumbersFinite ==
    Returned
        => /\ IsFinite(result.performance.thrust)
           /\ IsFinite(result.performance.specificThrust)
           /\ IsFinite(result.performance.sfc)

\* a valid cycle has been returned whose bypass stream, a quarter of the flow
\* or more, leaves the nozzle at zero velocity: the area term of its thrust
\* was not a number, and the thrust returned is 0
ZeroExitVelocitySanitized ==
    /\ Returned /\ result.performance.isValid
    /\ FGt(inputs.bypassRatio, Zero)
    /\ result.performance.bypassVelocity = Zero
    /\ result.performance.thrust = Zero
    /\ result.performance.specificThrust = Zero

\* C15: in every result returned by calculateCycle, overallEfficiency is the
\* returned thermalEfficiency multiplied by the returned propulsiveEfficiency,
\* also where the propulsive efficiency was clamped.
OverallIsProduct ==
    Returned
        => result.performance.overallEfficiency
               = FMul(result.performance.thermalEfficiency,
                      result.performance.propulsiveEfficiency)

\* a valid cycle has been returned whose propulsive efficiency was clamped to
\* 0.999 and whose overall efficiency is above its thermal efficiency
ClampedAfterProduct ==
    /\ Returned /\ result.performance.isValid
    /\ result.performance.propulsiveEfficiency = Num(999, -3)
    /\ FGt(result.performance.thermalEfficiency, Zero)
    /\ FGt(result.performance.overallEfficiency, result.performance.thermalEfficiency)

\* the checks after which a turbine computes no outlet pressure, read off
\* the returned stations: the temperature ratio and the pressure term
HighStageRatioFails ==
    LET temp_ratio_HPT == FDiv(result.stations[6].temp, result.stations[5].temp)
    IN  FLe(temp_ratio_HPT, Zero) \/ FGe(temp_ratio_HPT, One)

HighStageTermFails ==
    LET temp_ratio_HPT == FDiv(result.stations[6].temp, result.stations[5].temp)
    IN  FGe(FDiv(FSub(One, temp_ratio_HPT), inputs.efficiencyHPT), One)

LowStageRatioFails ==
    LET temp_ratio_LPT == FDiv(result.stations[7].temp, result.stations[6].temp)
    IN  FLe(temp_ratio_LPT, Zero) \/ FGe(temp_ratio_LPT, One)

LowStageTermFails ==
    LET temp_ratio_LPT == FDiv(result.stations[7].temp, result.stations[6].temp)
    IN  FGe(FDiv(FSub(One, temp_ratio_LPT), inputs.efficiencyLPT), One)

\* C19: when a turbine fails its temperature-ratio check or its
\* pressure-term check, the total pressure returned for its outlet is the
\* total pressure of its inlet: the pressure of station "4.5" is that of
\* station "4" for the high-pressure turbine, and the pressure of station
\* "5" is that of station "4.5" for the low-pressure turbine.
FailedStageHoldsPressure ==
    Returned =>
        /\ HighStageRatioFails \/ HighStageTermFails
              => result.stations[6].pressure = result.stations[5].pressure
        /\ LowStageRatioFails \/ LowStageTermFails
              => result.stations[7].pressure = result.stations[6].pressure

\* a cycle has been returned whose high-pressure turbine passed its checks
\* and lowered the total pressure, and whose low-pressure turbine failed one
\* of its two checks
LowStageAloneHeld ==
    /\ Returned
    /\ ~HighStageRatioFails /\ ~HighStageTermFails
    /\ FLt(result.stations[6].pressure, result.stations[5].pressure)
    /\ LowStageRatioFails \/ LowStageTermFails
    /\ result.stations[7].pressure = result.stations[6].pressure

\* the overall pressure ratio divided by that of the fan is below the floor
\* of the compressor ratio
BelowFloor ==
    FLt(FDiv(inputs.overallPressureRatio, inputs.fanPressureRatio), Num(11, -1))

\* C20: the hpcPressureRatio that calculateCycle returns is
\* max(1.1, overallPressureRatio / fanPressureRatio) and so never below 1.1;
\* a record whose ratio is below 1.1 is solved with 1.1 without a word, and
\* is returned with isValid = false only if a check of a turbine or of the
\* core nozzle fails.
CompressorRatioFloored ==
    Returned =>
        /\ result.performance.hpcPressureRatio =
               FMax(Num(11, -1),
                    FDiv(inputs.overallPressureRatio, inputs.fanPressureRatio))
        /\ FGe(result.performance.hpcPressureRatio, Num(11, -1))
        /\ BelowFloor /\ ~result.performance.isValid
              => HighTurbineFails \/ LowTurbineFails \/ CoreStarved

\* a valid cycle has been returned for a record whose ratio is below the
\* floor, with 1.1 as its hpcPressureRatio
FlooredYetValid ==
    /\ Returned /\ BelowFloor
    /\ result.performance.isValid
    /\ result.performance.hpcPressureRatio = Num(11, -1)

\* the total pressures ahead of the two nozzles and the ambient pressure,
\* read off the returned stations
NozzlePt9 == FMul(result.stations[7].pressure, inputs.pressureRecoveryNozzle)

NozzlePt19 == FMul(result.stations[3].pressure, inputs.pressureRecoveryNozzle)

AmbientP0 == result.stations[1].pressure

CoreIsChoked == FGt(FDiv(NozzlePt9, AmbientP0), critical_ratio_hot)

BypassIsChoked == FGt(FDiv(NozzlePt19, AmbientP0), critical_ratio_cold)

\* C22: in every valid cycle and for each of the two nozzles, the nozzle is
\* choked exactly when Pt/P0 is above ((k+1)/2)^(k/(k-1)); the pressure
\* returned for the exit of a choked nozzle is Pt divided by that ratio and
\* is above P0, and the pressure returned for the exit of a nozzle that is
\* not choked is P0 exactly; so the pressures of the stations "9" and "19"
\* are never below P0.
NozzleExitPressure ==
    Returned /\ result.performance.isValid =>
        /\ IF CoreIsChoked
           THEN /\ result.stations[8].pressure = FDiv(NozzlePt9, critical_ratio_hot)
                /\ FGt(result.stations[8].pressure, AmbientP0)
           ELSE result.stations[8].pressure = AmbientP0
        /\ IF BypassIsChoked
           THEN /\ result.stations[9].pressure = FDiv(NozzlePt19, critical_ratio_cold)
                /\ FGt(result.stations[9].pressure, AmbientP0)
           ELSE result.stations[9].pressure = AmbientP0
        /\ FGe(result.stations[8].pressure, AmbientP0)
        /\ FGe(result.stations[9].pressure, AmbientP0)

\* a valid cycle has been returned whose bypass nozzle is choked and whose
\* core nozzle is not
BypassChokedCoreNot ==
    /\ Returned /\ result.performance.isValid
    /\ BypassIsChoked /\ ~CoreIsChoked
    /\ FGt(result.stations[9].pressure, result.stations[8].pressure)

\* C26: whenever calculateCycle returns isValid = false, the nozzles and the
\* performance summary are at the values they start from: coreVelocity and
\* bypassVelocity are 0, the pressures of the stations "9" and "19" are the
\* ambient pressure P0, the temperature of station "9" is Tt5 and that of
\* station "19" is Tt13, and thermalEfficiency, propulsiveEfficiency and
\* overallEfficiency are 0.
InvalidLeavesNeutral ==
    Returned /\ ~result.performance.isValid =>
        /\ result.performance.coreVelocity = Zero
        /\ result.performance.bypassVelocity = Zero
        /\ result.stations[8].pressure = result.stations[1].pressure
        /\ result.stations[9].pressure = result.stations[1].pressure
        /\ result.stations[8].temp = result.stations[7].temp
        /\ result.stations[9].temp = result.stations[3].temp
        /\ result.performance.thermalEfficiency = Zero
        /\ result.performance.propulsiveEfficiency = Zero
        /\ result.performance.overallEfficiency = Zero

\* a cycle has been returned that passed both turbines and became invalid in
\* the core nozzle, with a bypass total pressure above the ambient pressure
InvalidInCoreNozzle ==
    /\ Returned /\ ~result.performance.isValid
    /\ ~HighTurbineFails /\ ~LowTurbineFails
    /\ CoreStarved /\ ~BypassStarved

\* C27: calculateCycle returns isValid = false for one of these reasons
\* only: Tt45 < Tt3; Tt45/Tt4 outside (0,1); the pressure term of the
\* high-pressure turbine >= 1; Tt5 < T0; Tt5/Tt45 outside (0,1); the pressure
\* term of the low-pressure turbine >= 1; or a core nozzle that is not choked
\* and whose Pt9 is not above P0.  Nothing else clears isValid: not a thrust
\* that is negative or 0, not a fuelAirRatio of 0, not a compressor ratio at
\* its floor, and nothing about the bypass nozzle.
InvalidForListedReasonOnly ==
    Returned /\ ~result.performance.isValid =>
        \/ HighTurbineFails
        \/ LowTurbineFails
        \/ ~CoreIsChoked /\ CoreStarved

\* an invalid cycle has been returned whose only reason is the low-pressure
\* turbine, for a record whose compressor ratio is at its floor
LowTurbineAloneFailed ==
    /\ Returned /\ ~result.performance.isValid
    /\ ~HighTurbineFails /\ LowTurbineFails
    /\ BelowFloor

\* C29: the inlet state from which calculateEnvelope scales the mass flow is
\* the inlet state of the solver: for every altitude, Mach number and inlet
\* recovery, getInletConditions returns the Tt2 and the Pt2 that
\* calculateCycle returns as the temperature and the pressure of station
\* "2" for a record with that altitude, mach and pressureRecoveryInlet.
InletConditionsAgree ==
    Returned =>
        getInletConditions(inputs.altitude, inputs.mach, inputs.pressureRecoveryInlet)
            = [Tt2 |-> result.stations[2].temp, Pt2 |-> result.stations[2].pressure]

\* a cycle has been returned for a flight above sea level at a Mach number
\* above 1 and with a loss in the inlet
SupersonicInletReturned ==
    /\ Returned
    /\ FGt(inputs.altitude, Zero) /\ FGt(inputs.mach, One)
    /\ FLt(inputs.pressureRecoveryInlet, One)
    /\ FGt(result.stations[2].pressure, result.stations[1].pressure)

\* ------------------------------------------------------------------------
\* The sweep drivers.  Each call of a driver is a run of loop iterations; an
\* iteration is one action, and the return is another.

\* what an iteration leaves in res: the candidate it was at, and either that
\* it left it out by the skip rule or the record that it handed to the solver
\* and the performance its solve returned
Skipped(at) == [solved |-> FALSE, at |-> at]

Solved(at, c, r) ==
    [solved |-> TRUE, at |-> at, inputs |-> c, performance |-> r.performance]

\* calculateTrends: the overall pressure ratio from 10 to 60 in steps of 1
\* a sweep of the overall pressure ratio without its skip rule
TrendSkipsNothing(baseInputs, opr) == FALSE

TrendSkips(baseInputs, opr) == FLe(opr, baseInputs.fanPressureRatio)

TrendKeeps(r) == r.performance.isValid /\ FGt(r.performance.specificThrust, Zero)

\* a point that stores the thrust where the specific thrust belongs
TrendPointOfThrust(opr, r) ==
    [opr |-> opr, sfc |-> r.performance.sfc, specificThrust |-> r.performance.thrust]

TrendPoint(opr, r) ==
    [opr |-> opr, sfc |-> r.performance.sfc,
     specificThrust |-> r.performance.specificThrust]

\* an iteration that writes the overall pressure ratio of its candidate into
\* baseInputs and solves baseInputs
calculateTrendsStepInPlace ==
    /\ fn = "calculateTrends" /\ pc = "loop"
    /\ FLe(loop.opr, Num(60, 0))
    /\ IF TrendSkips(inputs, loop.opr)
       THEN res' = Skipped(loop) /\ UNCHANGED <<inputs, points, solves>>
       ELSE \E c \in {[inputs EXCEPT !.overallPressureRatio = loop.opr]} :
               \E r \in {calculateCycle(c)} :
               /\ inputs' = c
               /\ res' = Solved(loop, c, r)
               /\ points' = IF TrendKeeps(r) THEN Append(points, TrendPoint(loop.opr, r))
                            ELSE points
               /\ solves' = solves + 1
    /\ loop' = [opr |-> FAdd(loop.opr, One)]
    /\ UNCHANGED <<fn, pc, result, calls, ui>>

calculateTrendsStep ==
    /\ fn = "calculateTrends" /\ pc = "loop"
    /\ FLe(loop.opr, Num(60, 0))
    /\ IF TrendSkips(inputs, loop.opr)
       THEN res' = Skipped(loop) /\ UNCHANGED <<points, solves>>
       ELSE \E c \in {[inputs EXCEPT !.overallPressureRatio = loop.opr]} :
               \E r \in {calculateCycle(c)} :
               /\ res' = Solved(loop, c, r)
               /\ points' = IF TrendKeeps(r) THEN Append(points, TrendPoint(loop.opr, r))
                            ELSE points
               /\ solves' = solves + 1
    /\ loop' = [opr |-> FAdd(loop.opr, One)]
    /\ UNCHANGED <<inputs, fn, pc, result, calls, ui>>

calculateTrendsReturn ==
    /\ fn = "calculateTrends" /\ pc = "loop"
    /\ ~FLe(loop.opr, Num(60, 0))
    /\ result' = points
    /\ pc' = "returned"
    /\ UNCHANGED <<inputs, fn, loop, res, points, solves, calls, ui>>

\* calculateFanTrends: the fan pressure ratio from 1.1 to 4.0 in steps of
\* 0.1.  The counter is a sum of binary fractions that are not exactly the
\* decimal ones, so when its decimal value stands at the bound itself the
\* test fpr <= 4.0 may come out either way: both are allowed here.
\* a sweep of the fan pressure ratio without its skip rule
FanSkipsNothing(baseInputs, fpr) == FALSE

FanSkips(baseInputs, fpr) == FGe(fpr, baseInputs.overallPressureRatio)

FanKeeps(r) == r.performance.isValid /\ FGt(r.performance.specificThrust, Zero)

FanPoint(fpr, r) ==
    [fpr |-> fpr, sfc |-> r.performance.sfc,
     specificThrust |-> r.performance.specificThrust]

calculateFanTrendsStep ==
    /\ fn = "calculateFanTrends" /\ pc = "loop"
    /\ FLe(loop.fpr, Num(4, 0))
    /\ IF FanSkips(inputs, loop.fpr)
       THEN res' = Skipped(loop) /\ UNCHANGED <<points, solves>>
       ELSE \E c \in {[inputs EXCEPT !.fanPressureRatio = loop.fpr]} :
               \E r \in {calculateCycle(c)} :
               /\ res' = Solved(loop, c, r)
               /\ points' = IF FanKeeps(r) THEN Append(points, FanPoint(loop.fpr, r))
                            ELSE points
               /\ solves' = solves + 1
    /\ loop' = [fpr |-> FAdd(loop.fpr, Num(1, -1))]
    /\ UNCHANGED <<inputs, fn, pc, result, calls, ui>>

calculateFanTrendsReturn ==
    /\ fn = "calculateFanTrends" /\ pc = "loop"
    /\ ~FLt(loop.fpr, Num(4, 0))
    /\ result' = points
    /\ pc' = "returned"
    /\ UNCHANGED <<inputs, fn, loop, res, points, solves, calls, ui>>

\* calculateBypassTrends: the bypass ratio from 0.2 to 15.0 in steps of 0.1,
\* with the same remark on the test at the bound; no candidate is skipped
BypassKeeps(r) == r.performance.isValid /\ FGt(r.performance.specificThrust, Zero)

BypassPoint(bpr, r) ==
    [bpr |-> bpr, sfc |-> r.performance.sfc,
     specificThrust |-> r.performance.specificThrust]

calculateBypassTrendsStep ==
    /\ fn = "calculateBypassTrends" /\ pc = "loop"
    /\ FLe(loop.bpr, Num(15, 0))
    /\ \E c \in {[inputs EXCEPT !.bypassRatio = loop.bpr]} :
          \E r \in {calculateCycle(c)} :
          /\ res' = Solved(loop, c, r)
          /\ points' = IF BypassKeeps(r) THEN Append(points, BypassPoint(loop.bpr, r))
                       ELSE points
    /\ solves' = solves + 1
    /\ loop' = [bpr |-> FAdd(loop.bpr, Num(1, -1))]
    /\ UNCHANGED <<inputs, fn, pc, result, calls, ui>>

calculateBypassTrendsReturn ==
    /\ fn = "calculateBypassTrends" /\ pc = "loop"
    /\ ~FLt(loop.bpr, Num(15, 0))
    /\ result' = points
    /\ pc' = "returned"
    /\ UNCHANGED <<inputs, fn, loop, res, points, solves, calls, ui>>

\* calculateEnvelope: the grid of machSteps + 1 Mach numbers by altSteps + 1
\* altitudes, the Mach number in the outer loop
machSteps == 50
altSteps == 40
maxMach == Num(25, -1)
maxAlt == 20

EnvelopeMach(i) == FMul(FDiv(Num(i, 0), Num(machSteps, 0)), maxMach)

EnvelopeAltitude(j) == FMul(FDiv(Num(j, 0), Num(altSteps, 0)), Num(maxAlt, 0))

\* the mass flow at a flight condition, from the corrected flow of the base
\* inputs: designCorrectedFlow * (delta / sqrt(theta))
physicalMassFlow(designCorrectedFlow, inlet) ==
    FMul(designCorrectedFlow,
         FDiv(FDiv(inlet.Pt2, Num(101325, 0)),
              FSqrt(FDiv(inlet.Tt2, Num(28815, -2)))))

\* cell inputs whose mass flow is scaled for an inlet without losses
EnvelopeInputsWithoutLoss(baseInputs, m, h) ==
    [baseInputs EXCEPT
        !.altitude = h, !.mach = m,
        !.massFlow = physicalMassFlow(baseInputs.massFlow,
                         getInletConditions(h, m, One))]

EnvelopeInputs(baseInputs, m, h) ==
    [baseInputs EXCEPT
        !.altitude = h, !.mach = m,
        !.massFlow = physicalMassFlow(baseInputs.massFlow,
                         getInletConditions(h, m, baseInputs.pressureRecoveryInlet))]

EnvelopeKeeps(r) == r.performance.isValid /\ FGt(r.performance.thrust, Zero)

\* a point that stores the altitude as its Mach number and the Mach number as
\* its altitude
EnvelopePointSwapped(m, h, r) ==
    [mach |-> h, altitude |-> m, sfc |-> r.performance.sfc,
     thrust |-> r.performance.thrust, isValid |-> TRUE]

EnvelopePoint(m, h, r) ==
    [mach |-> m, altitude |-> h, sfc |-> r.performance.sfc,
     thrust |-> r.performance.thrust, isValid |-> TRUE]

\* one pass of the inner loop body, followed by j++ and, when that ends the
\* inner loop, by i++ and the next j = 0
calculateEnvelopeStep ==
    /\ fn = "calculateEnvelope" /\ pc = "loop"
    /\ loop.i <= machSteps /\ loop.j <= altSteps
    /\ \E c \in {EnvelopeInputs(inputs, EnvelopeMach(loop.i), EnvelopeAltitude(loop.j))} :
          \E r \in {calculateCycle(c)} :
          /\ res' = Solved(loop, c, r)
          /\ points' = IF EnvelopeKeeps(r)
                       THEN Append(points, EnvelopePoint(EnvelopeMach(loop.i),
                                                         EnvelopeAltitude(loop.j), r))
                       ELSE points
    /\ solves' = solves + 1
    /\ loop' = IF loop.j + 1 <= altSteps THEN [i |-> loop.i, j |-> loop.j + 1]
               ELSE [i |-> loop.i + 1, j |-> 0]
    /\ UNCHANGED <<inputs, fn, pc, result, calls, ui>>

calculateEnvelopeReturn ==
    /\ fn = "calculateEnvelope" /\ pc = "loop"
    /\ ~(loop.i <= machSteps)
    /\ result' = points
    /\ pc' = "returned"
    /\ UNCHANGED <<inputs, fn, loop, res, points, solves, calls, ui>>

\* the base inputs of the sweeps: one that the overall pressure ratios and
\* the fan pressure ratios of the sweeps cross, one so cold that few of its
\* candidates are feasible, the default engine, and a hot low-bypass engine
SweepBases ==
    << [DEFAULT_INPUTS EXCEPT !.fanPressureRatio = Num(12, 0), !.bypassRatio = One,
                              !.overallPressureRatio = Num(3, 0)],
       [DEFAULT_INPUTS EXCEPT !.turbineEntryTemp = Num(1200, 0),
                              !.fanPressureRatio = Num(162, -2)],
       DEFAULT_INPUTS,
       [DEFAULT_INPUTS EXCEPT !.bypassRatio = One, !.turbineEntryTemp = Num(2000, 0),
                              !.mach = Num(15, -1)] >>

NumSweepBases == 3

FirstLoop ==
    [calculateTrends |-> [opr |-> Num(10, 0)],
     calculateFanTrends |-> [fpr |-> Num(11, -1)],
     calculateBypassTrends |-> [bpr |-> Num(2, -1)],
     calculateEnvelope |-> [i |-> 0, j |-> 0]]

InitSweeps ==
    /\ inputs \in { SweepBases[b] : b \in 1..NumSweepBases }
    /\ fn \in DOMAIN FirstLoop
    /\ pc = "loop"
    /\ loop = FirstLoop[fn]
    /\ res = NoCandidate
    /\ points = <<>>
    /\ solves = 0
    /\ result = <<>>
    /\ calls = <<>>
    /\ ui = NoUI

NextSweeps ==
    \/ calculateTrendsStep
    \/ calculateTrendsReturn
    \/ calculateFanTrendsStep
    \/ calculateFanTrendsReturn
    \/ calculateBypassTrendsStep
    \/ calculateBypassTrendsReturn
    \/ calculateEnvelopeStep
    \/ calculateEnvelopeReturn

SpecSweeps == InitSweeps /\ [][NextSweeps]_vars

\* ------------------------------------------------------------------------
\* Properties of the sweep drivers, over SpecSweeps

Sweeping == fn # "calculateCycle"

SweepReturned == Sweeping /\ pc = "returned"

\* the skip rule of driver f at the candidate c
SkipRule(f, baseInputs, c) ==
    CASE f = "calculateTrends" -> FLe(c.opr, baseInputs.fanPressureRatio)
      [] f = "calculateFanTrends" -> FGe(c.fpr, baseInputs.overallPressureRatio)
      [] OTHER -> FALSE

\* the filter of driver f on the performance q of a solve
PassesFilter(f, q) ==
    /\ q.isValid
    /\ FGt(IF f = "calculateEnvelope" THEN q.thrust ELSE q.specificThrust, Zero)

\* the point of driver f for the candidate c whose solve returned q
PointOf(f, c, q) ==
    CASE f = "calculateTrends" ->
             [opr |-> c.opr, sfc |-> q.sfc, specificThrust |-> q.specificThrust]
      [] f = "calculateFanTrends" ->
             [fpr |-> c.fpr, sfc |-> q.sfc, specificThrust |-> q.specificThrust]
      [] f = "calculateBypassTrends" ->
             [bpr |-> c.bpr, sfc |-> q.sfc, specificThrust |-> q.specificThrust]
      [] f = "calculateEnvelope" ->
             [mach |-> EnvelopeMach(c.i), altitude |-> EnvelopeAltitude(c.j),
              sfc |-> q.sfc, thrust |-> q.thrust, isValid |-> TRUE]

\* C7: each of the four sweep drivers returns exactly the candidates that
\* pass the filter, in iteration order: an iteration solves its candidate
\* unless the skip rule leaves it out, appends one point, holding the
\* candidate and the metrics that solve returned, if the solve is valid with
\* specificThrust > 0 (thrust > 0 in the envelope), and otherwise leaves the
\* sequence as it is; the return hands the sequence over unchanged.
SweepKeepsWhatPasses ==
    [][ Sweeping =>
          IF loop' # loop
          THEN /\ res'.at = loop
               /\ res'.solved <=> ~SkipRule(fn, inputs, loop)
               /\ points' = IF res'.solved /\ PassesFilter(fn, res'.performance)
                            THEN Append(points, PointOf(fn, loop, res'.performance))
                            ELSE points
          ELSE result' = points /\ points' = points ]_vars

\* a sweep has returned that solved candidates, kept some and dropped others
SweepFiltered == SweepReturned /\ 0 < Len(result) /\ Len(result) < solves

\* a sweep has returned empty after solving candidates, none of them feasible
SweepEmpty == SweepReturned /\ solves > 0 /\ result = <<>>

\* C8: the sequence of calculateTrends has strictly increasing opr values,
\* every opr is one of the integers 10..60, and no point has
\* opr <= baseInputs.fanPressureRatio.
TrendsAscending ==
    fn = "calculateTrends"
        => /\ \A k \in 1..Len(points) :
                /\ \E n \in 10..60 : points[k].opr = Num(n, 0)
                /\ ~FLe(points[k].opr, inputs.fanPressureRatio)
                /\ k > 1 => FLt(points[k - 1].opr, points[k].opr)
           /\ pc = "returned" => result = points

\* calculateTrends has returned points for base inputs whose fan pressure
\* ratio is inside the swept range, so that the skip rule has acted
TrendsSkippedSome ==
    /\ SweepReturned /\ fn = "calculateTrends"
    /\ FGe(inputs.fanPressureRatio, Num(10, 0))
    /\ Len(result) > 0

\* C9: the sequence of calculateFanTrends has strictly increasing fpr values
\* within [1.1, 4.0] and no point with fpr >= baseInputs.overallPressureRatio;
\* the sequence of calculateBypassTrends has strictly increasing bpr values
\* within [0.2, 15.0], and calculateBypassTrends skips no candidate: every
\* iteration solves its own.
FanAndBypassAscending ==
    /\ fn = "calculateFanTrends"
         => /\ \A k \in 1..Len(points) :
                 /\ FGe(points[k].fpr, Num(11, -1)) /\ FLe(points[k].fpr, Num(4, 0))
                 /\ ~FGe(points[k].fpr, inputs.overallPressureRatio)
                 /\ k > 1 => FLt(points[k - 1].fpr, points[k].fpr)
            /\ pc = "returned" => result = points
    /\ fn = "calculateBypassTrends"
         => /\ \A k \in 1..Len(points) :
                 /\ FGe(points[k].bpr, Num(2, -1)) /\ FLe(points[k].bpr, Num(15, 0))
                 /\ k > 1 => FLt(points[k - 1].bpr, points[k].bpr)
            /\ res # NoCandidate => res.solved
            /\ pc = "returned" => result = points

\* calculateFanTrends has returned points for base inputs whose overall
\* pressure ratio is inside the swept range, so that the skip rule has acted
FanSkippedSome ==
    /\ SweepReturned /\ fn = "calculateFanTrends"
    /\ FLe(inputs.overallPressureRatio, Num(4, 0))
    /\ Len(result) > 0

\* the Mach numbers and the altitudes of the envelope grid
MachGrid == [i \in 0..machSteps |-> EnvelopeMach(i)]

AltitudeGrid == [j \in 0..altSteps |-> EnvelopeAltitude(j)]

\* the cell of the grid that a point lies on
OnGrid(p) ==
    /\ \E i \in 0..machSteps : MachGrid[i] = p.mach
    /\ \E j \in 0..altSteps : AltitudeGrid[j] = p.altitude

MachIndex(p) == CHOOSE i \in 0..machSteps : MachGrid[i] = p.mach

AltitudeIndex(p) == CHOOSE j \in 0..altSteps : AltitudeGrid[j] = p.altitude

\* p comes before q in the grid, Mach number first
Before(p, q) ==
    \/ MachIndex(p) < MachIndex(q)
    \/ MachIndex(p) = MachIndex(q) /\ AltitudeIndex(p) < AltitudeIndex(q)

\* the k-th point of the sequence ps is a kept cell in its place
EnvelopePointInPlace(ps, k) ==
    /\ OnGrid(ps[k])
    /\ ps[k].isValid = TRUE
    /\ FGt(ps[k].thrust, Zero)
    /\ k > 1 => Before(ps[k - 1], ps[k])

\* C10: the sequence of calculateEnvelope is a subsequence of the grid of
\* (machSteps + 1) x (altSteps + 1) = 51 x 41 cells taken Mach number first:
\* it has at most 2091 points, every point lies on a cell, the cells are
\* strictly increasing in lexicographic order of (i, j), so that no cell
\* appears twice, every point has isValid = true and thrust > 0, and each
\* cell is solved exactly once: when the loops stand at (i, j) the cells
\* before it, 41 i + j of them, have been solved and no others, and at the
\* return all 2091 have.
EnvelopeFollowsGrid ==
    fn = "calculateEnvelope"
        => /\ Len(points) <= (machSteps + 1) * (altSteps + 1)
           /\ solves = loop.i * (altSteps + 1) + loop.j
           /\ res # NoCandidate => res.solved
           /\ Len(points) > 0 => EnvelopePointInPlace(points, Len(points))
           /\ pc = "returned"
                => /\ result = points
                   /\ solves = (machSteps + 1) * (altSteps + 1)
                   /\ \A k \in 1..Len(result) : EnvelopePointInPlace(result, k)

\* calculateEnvelope has returned some cells of the grid, fewer than one row of
\* it, and dropped the others
EnvelopeFiltered ==
    /\ SweepReturned /\ fn = "calculateEnvelope"
    /\ 0 < Len(result) /\ Len(result) <= altSteps

\* C23: for each cell of its grid calculateEnvelope hands the solver a record
\* that equals baseInputs in every field but three: altitude and mach are
\* those of the cell, and massFlow is baseInputs.massFlow * delta /
\* sqrt(theta), with theta = Tt2 / 288.15 and delta = Pt2 / 101325 from the
\* inlet of that cell at the inlet recovery of baseInputs; every cell scales
\* the massFlow of baseInputs itself, not that of the cell before it.
EnvelopeCellRecord ==
    fn = "calculateEnvelope" /\ res.solved =>
        LET m == EnvelopeMach(res.at.i)
            h == EnvelopeAltitude(res.at.j)
            inlet == getInletConditions(h, m, inputs.pressureRecoveryInlet)
            theta == FDiv(inlet.Tt2, Num(28815, -2))
            delta == FDiv(inlet.Pt2, Num(101325, 0))
        IN  /\ res.inputs =
                  [inputs EXCEPT !.altitude = h, !.mach = m,
                                 !.massFlow = FMul(inputs.massFlow,
                                                   FDiv(delta, FSqrt(theta)))]
            /\ res.performance.massFlowRateAir = res.inputs.massFlow

\* calculateEnvelope has solved a cell after others, with a mass flow below
\* that of baseInputs
EnvelopeCellScaled ==
    /\ fn = "calculateEnvelope" /\ res.solved
    /\ res.at.i = 0 /\ res.at.j = 3
    /\ FLt(res.inputs.massFlow, inputs.massFlow)
    /\ res.inputs.altitude = Num(15, -1)

\* the fields that a driver sets in the record of a candidate
SweptFields ==
    [calculateTrends |-> {"overallPressureRatio"},
     calculateFanTrends |-> {"fanPressureRatio"},
     calculateBypassTrends |-> {"bypassRatio"},
     calculateEnvelope |-> {"altitude", "mach", "massFlow"}]

\* C24: no sweep driver changes the baseInputs it is given: no iteration and
\* no return of calculateTrends, calculateFanTrends, calculateBypassTrends or
\* calculateEnvelope changes a field of baseInputs, and the record that an
\* iteration hands to the solver is a record of its own, which has the
\* values of baseInputs in every field that the driver does not sweep.
BaseInputsKept ==
    [][ Sweeping =>
          /\ inputs' = inputs
          /\ res'.solved =>
                \A k \in DOMAIN inputs \ SweptFields[fn] :
                    res'.inputs[k] = inputs'[k] ]_vars

\* calculateTrends has returned after solving candidates whose record is not
\* that of baseInputs, and baseInputs is the default engine
TrendsSolvedCopies ==
    /\ SweepReturned /\ fn = "calculateTrends"
    /\ res.solved /\ res.inputs # inputs
    /\ inputs = DEFAULT_INPUTS

\* ------------------------------------------------------------------------
\* The callers.  The application calls calculateCycle again whenever it is
\* asked to, with the record that its sliders have been left at, and hands
\* what the call returned to ResultsSection.

\* the most calls that a caller makes
MaxCalls == 3

\* the arguments of the first call
CallInputs ==
    { [DEFAULT_INPUTS EXCEPT !.mach = Values.mach[m],
                             !.overallPressureRatio = Values.overallPressureRatio[op],
                             !.turbineEntryTemp = Values.turbineEntryTemp[tt],
                             !.heatingValue = hv] :
        m \in 2..NumMach, op \in 1..NumOverall, tt \in 1..NumTurbineTemp,
        hv \in {DEFAULT_INPUTS.heatingValue, Num(46, 0)} }

\* the arguments of a next call after a call with the record i: i itself, or
\* i with another turbine entry temperature, another efficiency of the
\* low-pressure compressor or another mass flow
Variations(i) ==
    {i} \cup { [i EXCEPT !.turbineEntryTemp = t] :
                 t \in { Values.turbineEntryTemp[k] : k \in DOMAIN Values.turbineEntryTemp }
                          \cup {Num(1200, 0), Num(39800, 0)} }
        \cup { [i EXCEPT !.efficiencyLPC = Num(8, -1)] }
        \cup { [i EXCEPT !.massFlow = w] : w \in {Num(10, 0), Num(1, 307)} }

\* a ResultsSection that looks at isValid only where it fills the active tab
ResultsSectionCheckingLate(r, activeTab) ==
    {"MetricCard Fs", "MetricCard SFC", "MetricCard Fn", "MetricCard OPR",
     "TabButtons"}
      \cup IF ~r.performance.isValid THEN {"InfeasibleMessage"}
           ELSE CASE activeTab = "station" -> {"StationChart", "StationGrid"}
                  [] activeTab = "optimization" -> {"PerformanceCharts"}
                  [] activeTab = "envelope" -> {"FlightEnvelopeHeatmap"}

\* what ResultsSection renders for the result r while activeTab is active
ResultsSection(r, activeTab) ==
    IF ~r.performance.isValid
    THEN {"InfeasibleMessage"}
    ELSE {"MetricCard Fs", "MetricCard SFC", "MetricCard Fn", "MetricCard OPR",
          "TabButtons"}
           \cup CASE activeTab = "station" -> {"StationChart", "StationGrid"}
                  [] activeTab = "optimization" -> {"PerformanceCharts"}
                  [] activeTab = "envelope" -> {"FlightEnvelopeHeatmap"}

\* ResultsSection after a render with the result r
Render(r, activeTab) ==
    [activeTab |-> activeTab, result |-> r, rendered |-> ResultsSection(r, activeTab)]

\* a caller of a solver whose isValid flag is shared by all calls, set by a
\* failed check and never set back
CallAgainRemembering ==
    /\ fn = "calculateCycle" /\ pc = "returned"
    /\ solves < MaxCalls
    /\ \E next \in Variations(inputs) :
          /\ inputs' = next
          /\ result' = IF result.performance.isValid
                       THEN calculateCycle(next)
                       ELSE [calculateCycle(next) EXCEPT !.performance.isValid = FALSE]
    /\ ui' = Render(result', ui.activeTab)
    /\ calls' = Append(calls, [inputs |-> inputs, result |-> result])
    /\ solves' = solves + 1
    /\ UNCHANGED <<fn, pc, loop, res, points>>

\* the sliders are moved and the cycle is solved again for the record they
\* are left at; what the call returns goes to ResultsSection, which keeps
\* its tab
CallAgain ==
    /\ fn = "calculateCycle" /\ pc = "returned"
    /\ solves < MaxCalls
    /\ \E next \in Variations(inputs) :
          /\ inputs' = next
          /\ result' = calculateCycle(next)
    /\ ui' = Render(result', ui.activeTab)
    /\ calls' = Append(calls, [inputs |-> inputs, result |-> result])
    /\ solves' = solves + 1
    /\ UNCHANGED <<fn, pc, loop, res, points>>

\* a click on the button of a tab, and the render that follows it
setActiveTab(tab) ==
    /\ fn = "calculateCycle" /\ pc = "returned"
    /\ "TabButtons" \in ui.rendered
    /\ tab # ui.activeTab
    /\ ui' = Render(ui.result, tab)
    /\ UNCHANGED <<inputs, fn, pc, loop, res, points, solves, result, calls>>

\* the first call has returned and its result has been rendered
InitCalls ==
    /\ inputs \in CallInputs
    /\ fn = "calculateCycle"
    /\ pc = "returned"
    /\ loop = <<>>
    /\ res = NoCandidate
    /\ points = <<>>
    /\ solves = 1
    /\ result = calculateCycle(inputs)
    /\ calls = <<>>
    /\ ui = Render(result, "station")

NextCalls ==
    \/ CallAgain
    \/ \E tab \in {"station", "optimization", "envelope"} : setActiveTab(tab)

SpecCalls == InitCalls /\ [][NextCalls]_vars

\* ------------------------------------------------------------------------
\* Properties of calls that follow one another, over SpecCalls

\* calculateCycle has returned from a call that followed another; Earlier is
\* the call before it
Recalled == fn = "calculateCycle" /\ pc = "returned" /\ calls # <<>>

Earlier == calls[Len(calls)]

\* the checks of the two turbines, read off the stations that a call with
\* the record i returned in r
HighTurbinePasses(i, r) ==
    LET Tt3 == r.stations[4].temp
        Tt4 == r.stations[5].temp
        Tt45 == r.stations[6].temp
    IN  /\ ~FLt(Tt45, Tt3)
        /\ FGt(FDiv(Tt45, Tt4), Zero) /\ FLt(FDiv(Tt45, Tt4), One)
        /\ FLt(FDiv(FSub(One, FDiv(Tt45, Tt4)), i.efficiencyHPT), One)

LowTurbinePasses(i, r) ==
    LET T0 == r.stations[1].temp
        Tt45 == r.stations[6].temp
        Tt5 == r.stations[7].temp
    IN  /\ ~FLt(Tt5, T0)
        /\ FGt(FDiv(Tt5, Tt45), Zero) /\ FLt(FDiv(Tt5, Tt45), One)
        /\ FLt(FDiv(FSub(One, FDiv(Tt5, Tt45)), i.efficiencyLPT), One)

\* the latest call differs from the one before it by a higher turbine entry
\* temperature and by nothing else
OnlyHotter ==
    /\ Recalled
    /\ inputs = [Earlier.inputs EXCEPT !.turbineEntryTemp = inputs.turbineEntryTemp]
    /\ FGt(inputs.turbineEntryTemp, Earlier.inputs.turbineEntryTemp)

\* what raising the turbine entry temperature must keep
KeptByHotter ==
    /\ Earlier.result.performance.isValid => result.performance.isValid
    /\ HighTurbinePasses(Earlier.inputs, Earlier.result)
           => HighTurbinePasses(inputs, result)
    /\ HighTurbinePasses(Earlier.inputs, Earlier.result)
         /\ LowTurbinePasses(Earlier.inputs, Earlier.result)
           => LowTurbinePasses(inputs, result)

\* C12: a cycle that is valid stays valid for every record that differs
\* only by a higher turbineEntryTemp, and no turbine check that passed fails
\* after the temperature was raised.
HotterStaysValid == OnlyHotter => KeptByHotter

\* the same, for temperatures raised to a value of the range that the
\* sliders of the application allow, 1000 to 2200 K
HotterInRangeStaysValid ==
    OnlyHotter /\ FLe(inputs.turbineEntryTemp, Num(2200, 0)) => KeptByHotter

\* a valid cycle has been solved again at a higher temperature of the range
SolvedHotter ==
    /\ OnlyHotter /\ FLe(inputs.turbineEntryTemp, Num(2200, 0))
    /\ Earlier.result.performance.isValid /\ result.performance.isValid

\* a valid cycle has been solved again at the temperature where the heat of
\* the fuel equals the enthalpy at the burner exit, and is invalid
SolvedAtBalance ==
    /\ OnlyHotter
    /\ Earlier.result.performance.isValid /\ ~result.performance.isValid
    /\ ~IsFinite(result.performance.fuelAirRatio)

Altitudes ==
    { Num(0, 0), Num(5, 0), Num(10999, -3), Num(11, 0), Num(1100001, -5),
      Num(11001, -3), Num(12, 0), Num(20, 0) }

InitAtmosphere ==
    /\ inputs \in { [altitudeKm |-> h] : h \in Altitudes }
    /\ fn = "getAtmosphere"
    /\ pc = "call"
    /\ loop = <<>>
    /\ res = NoCandidate
    /\ points = <<>>
    /\ solves = 0
    /\ result = NoResult
    /\ calls = <<>>
    /\ ui = NoUI

CallAtmosphere ==
    /\ fn = "getAtmosphere"
    /\ pc = "call"
    /\ result' = getAtmosphere(inputs.altitudeKm)
    /\ pc' = "returned"
    /\ solves' = solves + 1
    /\ UNCHANGED <<inputs, fn, loop, res, points, calls, ui>>

CallAtmosphereAgain ==
    /\ fn = "getAtmosphere"
    /\ pc = "returned"
    /\ solves < MaxCalls
    /\ \E h \in Altitudes :
          /\ inputs' = [altitudeKm |-> h]
          /\ result' = getAtmosphere(h)
    /\ calls' = Append(calls, [inputs |-> inputs, result |-> result])
    /\ solves' = solves + 1
    /\ UNCHANGED <<fn, pc, loop, res, points, ui>>

NextAtmosphere ==
    \/ CallAtmosphere
    \/ CallAtmosphereAgain

SpecAtmosphere == InitAtmosphere /\ [][NextAtmosphere]_vars

\* ------------------------------------------------------------------------
\* Properties of getAtmosphere, over SpecAtmosphere

AtmosphereReturned == fn = "getAtmosphere" /\ pc = "returned"

\* the boundary between the layers, in km, and the pressure from which the
\* stratosphere formula starts
Tropopause == Num(11, 0)

P11 == Num(226321, -1)

\* the values at sea level and the temperature at the boundary
AtmosphereFixedPoints ==
    /\ inputs.altitudeKm = Zero
          => result.T0 = Num(28815, -2) /\ result.P0 = Num(101325, 0)
    /\ inputs.altitudeKm = Tropopause => result.T0 = Num(21665, -2)

\* C17: getAtmosphere returns T = 288.15 K and P = 101325 Pa at altitude 0
\* and T = 216.65 K at 11 km; for any two altitudes h1 < h2 both the
\* temperature and the pressure at h2 are strictly below those at h1, in
\* either layer and across them; the formulas of the two layers agree at
\* 11 km, where the troposphere formula is the one used.
AtmosphereStrictlyDecreasing ==
    AtmosphereReturned =>
        /\ AtmosphereFixedPoints
        /\ inputs.altitudeKm = Tropopause => result.P0 = P11
        /\ \A k \in 1..Len(calls) :
              FLt(calls[k].inputs.altitudeKm, inputs.altitudeKm)
                  => /\ FLt(result.T0, calls[k].result.T0)
                     /\ FLt(result.P0, calls[k].result.P0)

\* C17, as the code has it: T = 288.15 K and P = 101325 Pa at altitude 0 and
\* T = 216.65 K at 11 km; the troposphere formula is used up to 11 km, that
\* included, and gives T = 288.15 - 6.5 h there and a pressure at 11 km below
\* the 22632.1 Pa of the stratosphere formula; above 11 km T is 216.65 K at
\* every altitude and P is below 22632.1 Pa.  For h1 < h2 the temperature at
\* h2 is below that at h1 when h1 < 11 km and equal to it otherwise; the
\* pressure at h2 is below that at h1 when both are in one layer, and below
\* it or above it by less than 0.1 Pa when the boundary lies between them.
AtmosphereByLayer ==
    AtmosphereReturned =>
        LET h == inputs.altitudeKm
            InTroposphere(a) == FLe(a, Tropopause)
        IN  /\ AtmosphereFixedPoints
            /\ IF InTroposphere(h)
               THEN /\ result.T0 = FSub(Num(28815, -2), FMul(Num(65, -1), h))
                    /\ h = Tropopause => FLt(result.P0, P11)
               ELSE /\ result.T0 = Num(21665, -2)
                    /\ FLt(result.P0, P11)
            /\ \A k \in 1..Len(calls) :
                  LET h1 == calls[k].inputs.altitudeKm
                      r1 == calls[k].result
                  IN  FLt(h1, h) =>
                        /\ IF FLt(h1, Tropopause)
                           THEN FLt(result.T0, r1.T0)
                           ELSE result.T0 = r1.T0
                        /\ IF InTroposphere(h1) = InTroposphere(h)
                           THEN FLt(result.P0, r1.P0)
                           ELSE FLt(result.P0, FAdd(r1.P0, Num(1, -1)))

\* getAtmosphere has been called at 11 km and then just above it, and has
\* returned the same temperature and a higher pressure
AcrossTropopause ==
    /\ AtmosphereReturned /\ calls # <<>>
    /\ calls[Len(calls)].inputs.altitudeKm = Tropopause
    /\ FGt(inputs.altitudeKm, Tropopause)
    /\ result.T0 = calls[Len(calls)].result.T0
    /\ FGt(result.P0, calls[Len(calls)].result.P0)

\* ------------------------------------------------------------------------
\* Properties of ResultsSection, over SpecCalls

\* C18: when the result handed to ResultsSection has isValid = false, the
\* component renders the infeasible-cycle message and nothing else: no
\* metric card, no station chart, no trend chart and no envelope heatmap,
\* whichever tab is active.
InfeasibleRendersMessageOnly ==
    ~ui.result.performance.isValid /\ ui.rendered # {}
        => ui.rendered = {"InfeasibleMessage"}

\* an infeasible result has been rendered while the envelope tab was active
InfeasibleOnEnvelopeTab ==
    /\ ui.rendered # {} /\ ~ui.result.performance.isValid
    /\ ui.activeTab = "envelope"

\* ------------------------------------------------------------------------
\* Properties of the burner at extreme temperatures, over SpecCalls

\* the quotient of the energy balance of the latest call is negative
NegativeQuotient ==
    LET s == Cycle(inputs)
    IN  FLt(FDiv(s.numerator, s.denominator), Zero)

\* C21: the fuelAirRatio that calculateCycle returns is never negative: a
\* negative quotient of the energy balance is replaced by 0; the cycle is
\* then invalid only if a check of a turbine or of the core nozzle fails,
\* and a valid cycle with fuelAirRatio = 0 has sfc, thermalEfficiency and
\* propulsiveEfficiency 0.
FuelAirRatioFloored ==
    LET p == result.performance
        negative == NegativeQuotient
    IN  /\ ~FLt(p.fuelAirRatio, Zero)
        /\ negative => p.fuelAirRatio = Zero
        /\ negative /\ ~p.isValid
              => HighTurbineFails \/ LowTurbineFails \/ CoreStarved
        /\ p.isValid /\ p.fuelAirRatio = Zero
              => /\ p.sfc = Zero
                 /\ p.thermalEfficiency = Zero
                 /\ p.propulsiveEfficiency = Zero

\* a valid cycle has been returned whose quotient was negative and whose
\* fuelAirRatio is 0, with a thrust above 0
BurnerWithoutHeat ==
    /\ NegativeQuotient
    /\ result.performance.isValid
    /\ result.performance.fuelAirRatio = Zero
    /\ FGt(result.performance.thrust, Zero)

\* ------------------------------------------------------------------------
\* Properties of two calls that differ in one field, over SpecCalls

\* the latest call differs from the one before it in the field k and in no
\* other
OnlyField(k) ==
    /\ Recalled
    /\ inputs[k] # Earlier.inputs[k]
    /\ inputs = [Earlier.inputs EXCEPT ![k] = inputs[k]]

\* C25: efficiencyLPC is read by nothing: two calls of calculateCycle whose
\* records differ in efficiencyLPC only return the same stations and the
\* same performance, isValid included.
EfficiencyLPCIgnored ==
    OnlyField("efficiencyLPC") => result = Earlier.result

\* a valid cycle has been solved again with another efficiencyLPC
SolvedWithOtherLPC ==
    /\ OnlyField("efficiencyLPC")
    /\ Earlier.result.performance.isValid
    /\ FGt(result.performance.thrust, Zero)

\* the sign of a number that is not NaN
SignOf(x) == IF FGt(x, Zero) THEN 1 ELSE IF FLt(x, Zero) THEN -1 ELSE 0

\* what a change of massFlow alone must keep
KeptByMassFlow ==
    LET p == result.performance
        q == Earlier.result.performance
    IN  /\ p.isValid = q.isValid
        /\ result.stations = Earlier.result.stations
        /\ p.fuelAirRatio = q.fuelAirRatio
        /\ p.coreVelocity = q.coreVelocity
        /\ p.bypassVelocity = q.bypassVelocity
        /\ p.specificThrust = q.specificThrust
        /\ SignOf(p.thrust) = SignOf(q.thrust)

\* C28: massFlow scales the thrust and nothing else: two calls of
\* calculateCycle whose records differ in massFlow only, both above 0,
\* return the same isValid, the same nine stations, the same fuelAirRatio,
\* coreVelocity, bypassVelocity and specificThrust, and thrusts of the same
\* sign, so that the thrust > 0 test of calculateEnvelope keeps the same
\* cells for every massFlow above 0.
MassFlowScalesThrust ==
    /\ OnlyField("massFlow")
    /\ FGt(inputs.massFlow, Zero) /\ FGt(Earlier.inputs.massFlow, Zero)
    => KeptByMassFlow

\* the same, for a massFlow of the range that the sliders of the application
\* allow, 10 to 2000 kg/s
MassFlowInRangeScalesThrust ==
    /\ OnlyField("massFlow")
    /\ FLe(inputs.massFlow, Num(2000, 0)) /\ FLe(Earlier.inputs.massFlow, Num(2000, 0))
    => KeptByMassFlow

\* a cycle with a thrust above 0 has been solved again with a massFlow so
\* large that the thrust is no longer finite, and has come back valid with a
\* thrust of 0
ThrustLostToOverflow ==
    /\ OnlyField("massFlow")
    /\ FGt(Earlier.result.performance.thrust, Zero)
    /\ result.performance.isValid
    /\ FGt(result.performance.specificThrust, Zero)
    /\ result.performance.thrust = Zero

\* ------------------------------------------------------------------------
\* The application shell.  App holds the record of the sliders in inputs and
\* the five result sets of the latest calculation in calculationData, which
\* is the variable result here; ui is what ResultsSection shows, the record
\* that App hands it as inputs included.  A sweep sequence stands here as
\* the driver and the baseInputs it was called with: what the call returns
\* is the subject of SpecSweeps.

SweepOf(f, baseInputs) == [fn |-> f, baseInputs |-> baseInputs]

\* the object that App stores in calculationData for the record i
CalculationData(i) ==
    [cycleResult |-> calculateCycle(i),
     trendData |-> SweepOf("calculateTrends", i),
     fanTrendData |-> SweepOf("calculateFanTrends", i),
     bypassTrendData |-> SweepOf("calculateBypassTrends", i),
     envelopeData |-> SweepOf("calculateEnvelope", i)]

\* the render of App: ResultsSection receives the cycle result of
\* calculationData and the record of the sliders
RenderApp(i, data, activeTab) ==
    [inputs |-> i] @@ Render(data.cycleResult, activeTab)

\* the positions that the sliders are moved to
SliderValues ==
    [overallPressureRatio |-> {Num(10, 0), Num(42, 0), Num(60, 0)},
     turbineEntryTemp |-> {Num(1000, 0), Num(1650, 0), Num(2200, 0)},
     mach |-> {Num(8, -1), Num(2, 0)}]

InitApp ==
    /\ inputs = DEFAULT_INPUTS
    /\ fn = "App"
    /\ pc = "returned"
    /\ loop = <<>>
    /\ res = NoCandidate
    /\ points = <<>>
    /\ solves = 0
    /\ result = CalculationData(DEFAULT_INPUTS)
    /\ calls = <<>>
    /\ ui = RenderApp(inputs, result, "station")

\* InputSection: a slider is moved; setInputs, and the render that follows
update(key, value) ==
    /\ fn = "App"
    /\ value # inputs[key]
    /\ inputs' = [inputs EXCEPT ![key] = value]
    /\ ui' = RenderApp(inputs', result, ui.activeTab)
    /\ UNCHANGED <<fn, pc, loop, res, points, solves, result, calls>>

\* a click on Calculate; setCalculationData, and the render that follows
handleCalculate ==
    /\ fn = "App"
    /\ result' = CalculationData(inputs)
    /\ ui' = RenderApp(inputs, result', ui.activeTab)
    /\ UNCHANGED <<inputs, fn, pc, loop, res, points, solves, calls>>

NextApp ==
    \/ \E key \in DOMAIN SliderValues : \E value \in SliderValues[key] : update(key, value)
    \/ handleCalculate

SpecApp == InitApp /\ [][NextApp]_vars

\* ------------------------------------------------------------------------
\* Properties of the application shell, over SpecApp

\* the record from which the sweep sequences on display were computed
ComputedFrom == result.trendData.baseInputs

\* the five result sets on display were computed from one record
ResultSetsFromOneRecord ==
    fn = "App" =>
        /\ result.fanTrendData.baseInputs = ComputedFrom
        /\ result.bypassTrendData.baseInputs = ComputedFrom
        /\ result.envelopeData.baseInputs = ComputedFrom
        /\ result.cycleResult = calculateCycle(ComputedFrom)
        /\ ui.result = result.cycleResult

\* C30: after any sequence of slider moves and clicks on Calculate, the
\* record that ResultsSection shows next to the results (the value of the
\* OPR card, the markers of the current point on the charts) is the record
\* from which the cycle result and the four sweep sequences on display were
\* computed, and the five result sets stem from one record.
DisplayedInputsAreComputedFrom ==
    fn = "App" =>
        /\ ResultSetsFromOneRecord
        /\ ui.inputs = ComputedFrom

\* a slider has been moved since the latest click on Calculate: the OPR card
\* shows an overall pressure ratio that is not the one of the record from
\* which the results on display were computed
StaleResultsDisplayed ==
    /\ fn = "App"
    /\ "MetricCard OPR" \in ui.rendered
    /\ ui.inputs.overallPressureRatio # ComputedFrom.overallPressureRatio
    /\ ui.result = calculateCycle(ComputedFrom)

====
